---- MODULE Spec2Model ----
(***************************************************************************)
(* Model of the reconciling write path of affinity-sync: the Writer's      *)
(* find-or-create operations (writer.py) on top of the v1 client           *)
(* (clients/affinity_v1.py), run against a remote service whose state is   *)
(* the collections below.  One Writer call is in progress at a time; each  *)
(* action is one remote interaction of that call together with the local   *)
(* processing that follows it.                                             *)
(*                                                                         *)
(* Strings are sequences of one-character strings, so that str.upper() and *)
(* str.lower() are computed.  None and the empty string, which the code    *)
(* tests by truthiness only, are both the empty sequence.  An optional     *)
(* entity is a sequence of length 0 (None) or 1.                           *)
(***************************************************************************)
EXTENDS Integers, Sequences, FiniteSets, TLC

VARIABLES
    people,         \* remote persons, in the remote's search-rank order
    companies,      \* remote organizations, in search-rank order
    opportunities,  \* remote opportunities, in search-rank order
    listEntries,    \* remote list entries
    fieldValues,    \* remote field values
    op,             \* the Writer operation the caller invokes
    args,           \* its arguments
    pc,             \* where the call stands; "idle" before it and "done" after it
    idx,            \* loop index of the call (email / candidate entry)
    stale,          \* ids the mirror store returned to the call
    cands,          \* find_or_create_list_entry: mathing_entries
    kept,           \* find_or_create_list_entry: still_matching_entries
    response,       \* the last search response the call received
    issued,         \* remote requests issued by the call, in order
    outcome,        \* how the last finished call ended
    before,         \* the remote state when the call started
    cached_v1_fields,   \* Writer.__v1_fields once computed: << >> or <<the list>>
    cached_fields,      \* Writer.__fields once computed: << >> or <<the dict>>
    cached_list_fields, \* Writer.__list_fields: list id -> dict
    fetched,            \* the schema fetches made so far, in order
    resolved,           \* update_fields: the (field, v1_field) of the field in hand
    values_to_remove,   \* update_fields: values of that field still to delete
    values_to_add,      \* update_fields: values of that field still to create
    schema,             \* the version of the remote field schema now in force
    api_call_entitlement, \* AffinityClientV1.api_call_entitlement: << >> or <<it>>
    inserted,           \* what insert_call_entitlement gave the mirror store, in order
    parked              \* the other Writer call in progress, if any, while this one runs

vars == <<people, companies, opportunities, listEntries, fieldValues,
          op, args, pc, idx, stale, cands, kept, response, issued, outcome, before,
          cached_v1_fields, cached_fields, cached_list_fields, fetched,
          resolved, values_to_remove, values_to_add,
          schema, api_call_entitlement, inserted, parked>>

remoteVars == <<people, companies, opportunities, listEntries, fieldValues>>

\* the Writer's field caches, and the log of the fetches that filled them
catalogVars == <<cached_v1_fields, cached_fields, cached_list_fields, fetched>>

\* the working state of Writer.__update_field
updateVars == <<resolved, values_to_remove, values_to_add>>

\* the last known call entitlement and the mirror store's entitlement history
entitlementVars == <<api_call_entitlement, inserted>>

(***************************************************************************)
(* Bounds of the model.                                                    *)
(***************************************************************************)
\* entities per remote collection in the initial state
MaxRemote == 2
\* ids the mirror store may return for one cached field value
MaxStale == 2

(***************************************************************************)
(* Strings.                                                                *)
(***************************************************************************)
None == << >>

UpperChar(c) ==
    CASE c = "j" -> "J"
      [] c = "s" -> "S"
      [] c = "x" -> "X"
      [] c = "a" -> "A"
      [] c = "c" -> "C"
      [] c = "d" -> "D"
      [] c = "o" -> "O"
      [] c = "p" -> "P"
      [] c = "q" -> "Q"
      [] c = "t" -> "T"
      [] c = "e" -> "E"
      [] c = "z" -> "Z"
      [] c = "r" -> "R"
      [] c = "n" -> "N"
      [] OTHER -> c

LowerChar(c) ==
    CASE c = "J" -> "j"
      [] c = "S" -> "s"
      [] c = "X" -> "x"
      [] c = "A" -> "a"
      [] c = "C" -> "c"
      [] c = "D" -> "d"
      [] c = "O" -> "o"
      [] c = "P" -> "p"
      [] c = "Q" -> "q"
      [] c = "T" -> "t"
      [] c = "E" -> "e"
      [] c = "Z" -> "z"
      [] c = "R" -> "r"
      [] c = "N" -> "n"
      [] OTHER -> c

\* str.upper()
Upper(s) == [i \in 1..Len(s) |-> UpperChar(s[i])]

\* str.lower()
Lower(s) == [i \in 1..Len(s) |-> LowerChar(s[i])]

IsPrefix(s, t) == Len(s) <= Len(t) /\ SubSeq(t, 1, Len(s)) = s

\* f'{first_name} {last_name}'
FullName(first, last) == first \o <<" ">> \o last

SeqsUpTo(S, n) == UNION {[1..k -> S] : k \in 0..n}

\* the remote numbers the entities of a collection 1, 2, ...
WithIds(templates) == [i \in 1..Len(templates) |-> templates[i] @@ [id |-> i]]

Range(s) == {s[i] : i \in 1..Len(s)}

(***************************************************************************)
(* Results of a call or of a client method.                                *)
(***************************************************************************)
Ret(v) == [kind |-> "returned", error |-> "", value |-> v]

Raise(e) == [kind |-> "raised", error |-> e, value |-> << >>]

NoOutcome == [kind |-> "none", error |-> "", value |-> << >>]

\* a remote request the call issued: the client method, what it asked for, the
\* status the remote answered, and the entity the method returned (<< >>: none)
Req(call, term, status, result) ==
    [call |-> call, term |-> term, status |-> status, result |-> result]

(***************************************************************************)
(* The remote service (external): what a term search answers.  A person    *)
(* matches a term that equals one of its emails or starts its full name,   *)
(* ignoring case; the response lists the matches in rank order.            *)
(***************************************************************************)
PersonMatchesTerm(p, term) ==
    \/ \E e \in p.emails : Lower(e) = Lower(term)
    \/ IsPrefix(Lower(term), Lower(FullName(p.first_name, p.last_name)))

SearchPersons(term) == SelectSeq(people, LAMBDA p : PersonMatchesTerm(p, term))

CompanyMatchesTerm(c, term) ==
    \/ \E d \in c.domains : Lower(d) = Lower(term)
    \/ IsPrefix(Lower(term), Lower(c.name))

SearchCompanies(term) == SelectSeq(companies, LAMBDA c : CompanyMatchesTerm(c, term))

OpportunityMatchesTerm(o, term) == IsPrefix(Lower(term), Lower(o.name))

SearchOpportunities(term) ==
    SelectSeq(opportunities, LAMBDA o : OpportunityMatchesTerm(o, term))

\* HTTP statuses the remote may answer a search and a create with
SearchStatuses == {200, 500}

CreateStatuses == {200, 422, 500}

(***************************************************************************)
(* Data pools of the model.                                                *)
(***************************************************************************)
FirstNames == {<<"j">>, <<"J">>}

LastNames == {<<"s">>, <<"s", "x">>}

Emails == {<<"p">>, <<"q">>}

EmailSets == {{}} \cup {{e} : e \in Emails}

PersonTemplates == [first_name : FirstNames, last_name : LastNames, emails : EmailSets]

CompanyNames == {<<"a">>, <<"A">>, <<"a", "c">>}

DomainSets == {{}, {<<"d">>}, {<<"D">>}, {<<"a">>}}

CompanyTemplates == [name : CompanyNames, domains : DomainSets]

OpportunityNames == {<<"o">>, <<"O">>, <<"o", "x">>}

ListIds == {1, 2}

OpportunityTemplates == [name : OpportunityNames, list_id : ListIds]

\* ids the mirror store may hold: those of the initial entities and one more,
\* which is the id of an entity deleted upstream until a create takes it
IdPool == 1..(MaxRemote + 1)

\* what the mirror store answers: no id, any one id, or 2..MaxStale ids
StaleAnswers ==
    {<< >>} \cup {<<i>> : i \in IdPool} \cup {[j \in 1..k |-> j] : k \in 2..MaxStale}

\* arguments of the calls, where they are fewer than the remote's values
ArgFirstNames == {<<"j">>, <<"J">>}

ArgLastNames == {<<"s">>}

\* the emails lists of the calls; no remote person holds the email r
ArgEmails ==
    { << >>, << <<"p">> >>, << <<"q">> >>, << <<"p">>, <<"q">> >>,
      << <<"q">>, <<"p">> >>, << <<"r">>, <<"p">> >> }

ArgCompanyNames == {<<"a">>}

ArgDomains == {None, <<"d">>, <<"a">>}

ArgOpportunityNames == {<<"o">>}

\* a qualifier of find_or_create_list_entry: a field name and the desired value,
\* a scalar (is_list FALSE, values of length 1) or a list
Qualifier(name, is_list, values) == [name |-> name, is_list |-> is_list, values |-> values]

\* the qualifiers dicts of the calls, in insertion order
QualifierChoices ==
    { << >>,
      <<Qualifier(<<"s">>, FALSE, <<"A">>)>>,
      <<Qualifier(<<"S">>, FALSE, <<"B">>)>>,
      <<Qualifier(<<"t">>, TRUE, <<"A", "B">>)>>,
      <<Qualifier(<<"s">>, FALSE, <<"A">>), Qualifier(<<"t">>, FALSE, <<"B">>)>>,
      <<Qualifier(<<"q">>, FALSE, <<"A">>)>>,
      <<Qualifier(<<"z">>, FALSE, <<"A">>)>> }

ListEntryTemplates == [list_id : {1}, entity_id : {1, 2}]

FieldValueTemplates ==
    [field_id : {10, 11}, list_entry_id : {1, 2}, value : {"A", "B"}]

\* Python None as a field value
NoValue == "None"

\* an item of the fields dict of update_fields: a field name and the value, a
\* scalar (is_list FALSE, values of length 1) or a list
FieldUpdate(name, is_list, values) == [name |-> name, is_list |-> is_list, values |-> values]

\* the fields dicts of the update_fields calls, in insertion order.  "0.0" and
\* "5.0" are floats, NoValue is None, every other value is a str
FieldsChoices ==
    { << >>,
      <<FieldUpdate(<<"s">>, FALSE, <<"A">>)>>,
      <<FieldUpdate(<<"S">>, FALSE, <<"">>)>>,
      <<FieldUpdate(<<"s">>, FALSE, <<NoValue>>)>>,
      <<FieldUpdate(<<"s">>, TRUE, <<"A", "B">>)>>,
      <<FieldUpdate(<<"s">>, TRUE, << >>)>>,
      <<FieldUpdate(<<"t">>, TRUE, <<"A", "B">>)>>,
      <<FieldUpdate(<<"t">>, FALSE, <<"B">>)>>,
      <<FieldUpdate(<<"n">>, FALSE, <<"0.0">>)>>,
      <<FieldUpdate(<<"n">>, FALSE, <<"A">>)>>,
      <<FieldUpdate(<<"q">>, FALSE, <<"A">>)>>,
      <<FieldUpdate(<<"z">>, FALSE, <<"A">>)>>,
      <<FieldUpdate(<<"d">>, FALSE, <<"5.0">>)>>,
      <<FieldUpdate(<<"s">>, FALSE, <<"B">>), FieldUpdate(<<"n">>, FALSE, <<"5.0">>)>>,
      <<FieldUpdate(<<"n">>, FALSE, <<"5.0">>), FieldUpdate(<<"N">>, FALSE, <<"0.0">>)>> }

\* entity_type, list_id and list_entry_id of the update_fields calls; 0 is None
Scope(entity_type, list_id, list_entry_id) ==
    [entity_type |-> entity_type, list_id |-> list_id, list_entry_id |-> list_entry_id]

ScopeChoices ==
    { Scope("person", 0, 0), Scope("person", 1, 1), Scope("company", 2, 1),
      Scope("opportunity", 1, 1), Scope("opportunity", 0, 0),
      Scope("person", 1, 0), Scope("person", 0, 1), Scope("opportunity", 1, 0) }

\* the remote field values an update_fields call may meet: of the list fields
\* 10 and 14 on list entry 1, of the global fields 11 and 13 on the entity or
\* on the entry
UpdateValueTemplates ==
    [field_id : {10}, list_entry_id : {1}, value : {"A", "B"}]
        \cup [field_id : {11}, list_entry_id : {0, 1}, value : {"A"}]
        \cup [field_id : {13}, list_entry_id : {0, 1}, value : {"5.0"}]
        \cup [field_id : {14}, list_entry_id : {1}, value : {"5.0"}]

CacheField == <<"c">>

CacheValue == <<"x">>

(***************************************************************************)
(* AffinityClientV1: what each method makes of the remote's answer.        *)
(***************************************************************************)
\* find_person_by_email, after the request
FindPersonByEmail(resp) == IF resp # << >> THEN <<resp[1]>> ELSE << >>

\* find_person_by_name, after the request
FindPersonByName(resp, first_name, last_name) ==
    LET valid_persons ==
            SelectSeq(resp, LAMBDA person :
                /\ Upper(person.first_name) = Upper(first_name)
                /\ Upper(person.last_name) = Upper(last_name))
    IN  IF Len(valid_persons) = 1 THEN Ret(<<resp[1]>>)
        ELSE IF Len(valid_persons) > 1 THEN Raise("MultipleResults")
        ELSE Ret(<< >>)

\* faulty variant of FindCompanyByDomain: the head of the response is returned
\* in place of the head of valid_companies
FindCompanyByDomainHead(resp, domain, take_best_match) ==
    LET valid_companies ==
            SelectSeq(resp, LAMBDA company :
                \E company_domain \in company.domains :
                    Lower(company_domain) = Lower(domain))
    IN  IF Len(valid_companies) = 1 \/ (take_best_match /\ Len(valid_companies) > 0)
        THEN Ret(<<resp[1]>>)
        ELSE IF Len(valid_companies) > 1 THEN Raise("MultipleResults")
        ELSE Ret(<< >>)

\* find_company_by_domain, after the request
FindCompanyByDomain(resp, domain, take_best_match) ==
    LET valid_companies ==
            SelectSeq(resp, LAMBDA company :
                \E company_domain \in company.domains :
                    Lower(company_domain) = Lower(domain))
    IN  IF Len(valid_companies) = 1 \/ (take_best_match /\ Len(valid_companies) > 0)
        THEN Ret(<<valid_companies[1]>>)
        ELSE IF Len(valid_companies) > 1 THEN Raise("MultipleResults")
        ELSE Ret(<< >>)

\* find_company_by_name, after the request
FindCompanyByName(resp, name, take_best_match) ==
    LET valid_companies ==
            SelectSeq(resp, LAMBDA company : Upper(company.name) = Upper(name))
    IN  IF Len(valid_companies) = 1 \/ (take_best_match /\ Len(valid_companies) > 0)
        THEN Ret(<<valid_companies[1]>>)
        ELSE IF Len(valid_companies) > 1 THEN Raise("MultipleResults")
        ELSE Ret(<< >>)

\* find_opportunity_by_name, after the request
FindOpportunityByName(resp, list_id, name) ==
    LET valid_opportunities ==
            SelectSeq(resp, LAMBDA opportunity : opportunity.list_id = list_id)
    IN  IF Len(valid_opportunities) = 1 THEN Ret(<<valid_opportunities[1]>>)
        ELSE IF Len(valid_opportunities) > 1 THEN Raise("MultipleResults")
        ELSE Ret(<< >>)

\* create_person: the remote's status, as the method surfaces it
CreatePersonResult(status, created) ==
    IF status = 200 THEN Ret(<<created>>)
    ELSE IF status = 422 THEN Raise("AlreadyExists")
    ELSE Raise("HTTPError")

\* create_company: the remote's status, as the method surfaces it
CreateCompanyResult(status, created) ==
    IF status = 200 THEN Ret(<<created>>) ELSE Raise("HTTPError")

\* create_opportunity: the remote's status, as the method surfaces it
CreateOpportunityResult(status, created) ==
    IF status = 200 THEN Ret(<<created>>) ELSE Raise("HTTPError")

\* find_person_by_id / find_company_by_id: the entity, or TryAgainError when the
\* remote reports that it is not found
FindById(collection, id) ==
    IF \E i \in 1..Len(collection) : collection[i].id = id
    THEN Ret(<<collection[CHOOSE i \in 1..Len(collection) : collection[i].id = id]>>)
    ELSE Raise("TryAgainError")

(***************************************************************************)
(* Writer: shared pieces of the find-or-create calls.                      *)
(***************************************************************************)
Snapshot ==
    [people |-> people, companies |-> companies, opportunities |-> opportunities,
     listEntries |-> listEntries, fieldValues |-> fieldValues]

\* a behaviour follows one Writer call, from any initial remote state
Idle == pc = "idle"

\* both or neither of cached_field_name and cached_filed_value must be given
CacheArgsInvalid(cached_field_name, cached_filed_value) ==
    \/ cached_field_name # None /\ cached_filed_value = None
    \/ cached_field_name = None /\ cached_filed_value # None

\* the six rate-limit headers of a response
RateLimitHeaders ==
    {"X-Ratelimit-Limit-User", "X-Ratelimit-Limit-User-Remaining",
     "X-Ratelimit-Limit-User-Reset", "X-Ratelimit-Limit-Org",
     "X-Ratelimit-Limit-Org-Remaining", "X-Ratelimit-Limit-Org-Reset"}

\* faulty variant of ExtractRateLimit: one header present is enough, a header
\* that is absent counts as 0
ExtractRateLimitAnyHeader(headers, last_known) ==
    IF ~(\E key \in RateLimitHeaders : key \in DOMAIN headers)
    THEN [kind |-> "raised", error |-> "ValueError", entitlement |-> last_known]
    ELSE [kind |-> "ok", error |-> "",
          entitlement |-> <<[key \in RateLimitHeaders |->
                                IF key \in DOMAIN headers THEN headers[key] ELSE 0]>>]

\* AffinityBase.__extract_rate_limit: ValueError when one of the six headers
\* is not among the response's, else the entitlement parsed from them becomes
\* the last known one.  headers is a function from header names to values
ExtractRateLimit(headers, last_known) ==
    IF ~(\A key \in RateLimitHeaders : key \in DOMAIN headers)
    THEN [kind |-> "raised", error |-> "ValueError", entitlement |-> last_known]
    ELSE [kind |-> "ok", error |-> "",
          entitlement |-> <<[key \in RateLimitHeaders |-> headers[key]]>>]

\* the headers of the n-th successful response a Writer's v1 client receives:
\* the remote sends all six, and what remains of the budget tells them apart
ResponseHeaders(n) == [key \in RateLimitHeaders \cup {"Content-Type"} |-> n]

\* the number of the response the last known entitlement came from
Serial(entitlement) ==
    IF entitlement = << >> THEN 0 ELSE entitlement[1]["X-Ratelimit-Limit-User-Remaining"]

\* the successful responses the v1 client received in the step: those to the
\* requests the call issued and those to fetch_fields
RECURSIVE Successes(_)
Successes(requests) ==
    IF requests = << >> THEN 0
    ELSE (IF Head(requests).status = 200 THEN 1 ELSE 0) + Successes(Tail(requests))

NewResponses ==
    Successes(IF Len(issued') > Len(issued)
              THEN SubSeq(issued', Len(issued) + 1, Len(issued')) ELSE << >>)
    + Len(SelectSeq(fetched', LAMBDA f : f.kind = "fields"))
    - Len(SelectSeq(fetched, LAMBDA f : f.kind = "fields"))

\* _send_request, line 59, for each response of the step: the last one's
\* entitlement is the one kept
RECURSIVE AfterResponses(_, _)
AfterResponses(last_known, n) ==
    IF n = 0 THEN last_known
    ELSE AfterResponses(
             ExtractRateLimit(ResponseHeaders(Serial(last_known) + 1), last_known).entitlement,
             n - 1)

\* what a step does to the entitlements: every successful response of the v1
\* client replaces the last known entitlement, and insert_entitlement_after
\* hands the last known one to the mirror store when the call returns; a call
\* that raises hands over nothing
Entitle ==
    /\ api_call_entitlement' = AfterResponses(api_call_entitlement, NewResponses)
    /\ inserted' = IF pc # "done" /\ pc' = "done" /\ outcome'.kind = "returned"
                   THEN Append(inserted, api_call_entitlement')
                   ELSE inserted

\* a call begins: nothing issued yet, the remote as it stands is remembered
Begin(operation, arguments) ==
    /\ Idle
    /\ op = operation
    /\ op' = op
    /\ args' = arguments
    /\ idx' = 1
    /\ stale' = << >>
    /\ cands' = << >>
    /\ kept' = << >>
    /\ response' = << >>
    /\ issued' = << >>
    /\ before' = Snapshot
    /\ resolved' = << >>
    /\ values_to_remove' = << >>
    /\ values_to_add' = << >>
    /\ UNCHANGED <<remoteVars, catalogVars>>

\* a step of the call that ends it with result r
Finish(r) ==
    /\ outcome' = r
    /\ pc' = "done"

\* a step of the call after which it goes on at next
GoOn(next) ==
    /\ outcome' = outcome
    /\ pc' = next

\* faulty variant of Settle: the "if found: return found" is missing
SettleNoReturn(r, next) == IF r.kind = "raised" THEN Finish(r) ELSE GoOn(next)

\* a client method answered r: a raise or a match ends the call, None goes on
Settle(r, next) == IF r.kind = "raised" \/ r.value # << >> THEN Finish(r) ELSE GoOn(next)

(***************************************************************************)
(* Writer.find_or_create_person                                            *)
(***************************************************************************)
\* where the exact-match search of a person call starts: find_person_by_emails
\* sends nothing for an empty list
PersonSearchPc(emails) == IF Len(emails) = 0 THEN "name" ELSE "emails"

PersonStart ==
    \E first_name \in ArgFirstNames, last_name \in ArgLastNames, emails \in ArgEmails,
       cached_field_name \in {None, CacheField}, cached_filed_value \in {None, CacheValue} :
        /\ Begin("person", [first_name |-> first_name, last_name |-> last_name,
                            emails |-> emails, cached_field_name |-> cached_field_name,
                            cached_filed_value |-> cached_filed_value])
        /\ IF CacheArgsInvalid(cached_field_name, cached_filed_value)
           THEN Finish(Raise("ValueError"))
           ELSE /\ outcome' = NoOutcome
                /\ pc' = IF cached_field_name # None THEN "mirror" ELSE PersonSearchPc(emails)
        /\ Entitle
        /\ UNCHANGED <<schema, parked>>

\* faulty variant of PersonMirror: any non-empty answer leads to the fetch
PersonMirrorAnyIds ==
    /\ op = "person" /\ pc = "mirror"
    /\ \E ids \in StaleAnswers :
        /\ stale' = ids
        /\ GoOn(IF Len(ids) >= 1 THEN "fetch" ELSE PersonSearchPc(args.emails))
    /\ UNCHANGED <<catalogVars, updateVars>>
    /\ UNCHANGED <<remoteVars, op, args, idx, cands, kept, response, issued, before>>
    /\ Entitle
    /\ UNCHANGED <<schema, parked>>

\* reader.get_people_ids_by_field, and the test of how many ids it returned
PersonMirror ==
    /\ op = "person" /\ pc = "mirror"
    /\ \E ids \in StaleAnswers :
        /\ stale' = ids
        /\ GoOn(IF Len(ids) = 1 THEN "fetch" ELSE PersonSearchPc(args.emails))
    /\ UNCHANGED <<catalogVars, updateVars>>
    /\ UNCHANGED <<remoteVars, op, args, idx, cands, kept, response, issued, before>>
    /\ Entitle
    /\ UNCHANGED <<schema, parked>>

\* faulty variant of PersonFetch: TryAgainError is not caught
PersonFetchUncaught ==
    /\ op = "person" /\ pc = "fetch"
    /\ LET r == FindById(people, stale[1])
       IN  /\ issued' = Append(issued, Req("find_person_by_id", <<stale[1]>>,
                                           IF r.kind = "raised" THEN 404 ELSE 200,
                                           r.value))
           /\ Finish(r)
    /\ UNCHANGED <<catalogVars, updateVars>>
    /\ UNCHANGED <<remoteVars, op, args, idx, stale, cands, kept, response, before>>
    /\ Entitle
    /\ UNCHANGED <<schema, parked>>

\* find_person_by_id of the one cached id; TryAgainError is caught
PersonFetch ==
    /\ op = "person" /\ pc = "fetch"
    /\ LET r == FindById(people, stale[1])
       IN  /\ issued' = Append(issued, Req("find_person_by_id", <<stale[1]>>,
                                           IF r.kind = "raised" THEN 404 ELSE 200,
                                           r.value))
           /\ IF r.kind = "raised" /\ r.error = "TryAgainError"
              THEN GoOn(PersonSearchPc(args.emails))
              ELSE Finish(r)
    /\ UNCHANGED <<catalogVars, updateVars>>
    /\ UNCHANGED <<remoteVars, op, args, idx, stale, cands, kept, response, before>>
    /\ Entitle
    /\ UNCHANGED <<schema, parked>>

\* faulty variant of PersonEmail: the loop gives up after the first email
PersonEmailFirstOnly ==
    /\ op = "person" /\ pc = "emails"
    /\ \E status \in SearchStatuses :
        LET email == args.emails[idx]
            resp == IF status = 200 THEN SearchPersons(email) ELSE << >>
            person == IF status = 200 THEN FindPersonByEmail(resp) ELSE << >>
        IN  /\ issued' = Append(issued, Req("find_person_by_email", email, status, person))
            /\ response' = IF status = 200 THEN resp ELSE response
            /\ IF status # 200 THEN Finish(Raise("HTTPError")) /\ idx' = idx
               ELSE IF person # << >> THEN Finish(Ret(person)) /\ idx' = idx
               ELSE GoOn("name") /\ idx' = idx
    /\ UNCHANGED <<catalogVars, updateVars>>
    /\ UNCHANGED <<remoteVars, op, args, stale, cands, kept, before>>
    /\ Entitle
    /\ UNCHANGED <<schema, parked>>

\* one round of find_person_by_emails: find_person_by_email of emails[idx]
PersonEmail ==
    /\ op = "person" /\ pc = "emails"
    /\ \E status \in SearchStatuses :
        LET email == args.emails[idx]
            resp == IF status = 200 THEN SearchPersons(email) ELSE << >>
            person == IF status = 200 THEN FindPersonByEmail(resp) ELSE << >>
        IN  /\ issued' = Append(issued, Req("find_person_by_email", email, status, person))
            /\ response' = IF status = 200 THEN resp ELSE response
            /\ IF status # 200 THEN Finish(Raise("HTTPError")) /\ idx' = idx
               ELSE IF person # << >> THEN Finish(Ret(person)) /\ idx' = idx
               ELSE IF idx < Len(args.emails) THEN GoOn("emails") /\ idx' = idx + 1
               ELSE GoOn("name") /\ idx' = idx
    /\ UNCHANGED <<catalogVars, updateVars>>
    /\ UNCHANGED <<remoteVars, op, args, stale, cands, kept, before>>
    /\ Entitle
    /\ UNCHANGED <<schema, parked>>

\* find_person_by_name
PersonName ==
    /\ op = "person" /\ pc = "name"
    /\ \E status \in SearchStatuses :
        LET term == FullName(args.first_name, args.last_name)
            resp == IF status = 200 THEN SearchPersons(term) ELSE << >>
            r == IF status = 200
                 THEN FindPersonByName(resp, args.first_name, args.last_name)
                 ELSE Raise("HTTPError")
        IN  /\ issued' = Append(issued, Req("find_person_by_name", term, status, r.value))
            /\ response' = IF status = 200 THEN resp ELSE response
            /\ Settle(r, "create")
    /\ UNCHANGED <<catalogVars, updateVars>>
    /\ UNCHANGED <<remoteVars, op, args, idx, stale, cands, kept, before>>
    /\ Entitle
    /\ UNCHANGED <<schema, parked>>

\* create_person with the caller's attributes
PersonCreate ==
    /\ op = "person" /\ pc = "create"
    /\ \E status \in CreateStatuses :
        LET created == [id |-> Len(people) + 1, first_name |-> args.first_name,
                        last_name |-> args.last_name, emails |-> Range(args.emails)]
        IN  /\ issued' = Append(issued, Req("create_person", << >>, status,
                                            IF status = 200 THEN <<created>> ELSE << >>))
            /\ people' = IF status = 200 THEN Append(people, created) ELSE people
            /\ Finish(CreatePersonResult(status, created))
    /\ UNCHANGED <<catalogVars, updateVars>>
    /\ UNCHANGED <<companies, opportunities, listEntries, fieldValues,
                   op, args, idx, stale, cands, kept, response, before>>
    /\ Entitle
    /\ UNCHANGED <<schema, parked>>

(***************************************************************************)
(* Writer.find_or_create_company                                           *)
(***************************************************************************)
\* faulty variant of CompanySearchPc: the domain search is never made
CompanySearchPcNameOnly(domain) == "name"

\* where the exact-match search of a company call starts: no domain search
\* without a domain
CompanySearchPc(domain) == IF domain # None THEN "domain" ELSE "name"

CompanyStart ==
    \E name \in ArgCompanyNames, domain \in ArgDomains, take_best_match \in BOOLEAN,
       cached_field_name \in {None, CacheField}, cached_filed_value \in {None, CacheValue} :
        /\ Begin("company", [name |-> name, domain |-> domain,
                             take_best_match |-> take_best_match,
                             cached_field_name |-> cached_field_name,
                             cached_filed_value |-> cached_filed_value])
        /\ IF CacheArgsInvalid(cached_field_name, cached_filed_value)
           THEN Finish(Raise("ValueError"))
           ELSE /\ outcome' = NoOutcome
                /\ pc' = IF cached_field_name # None THEN "mirror" ELSE CompanySearchPc(domain)
        /\ Entitle
        /\ UNCHANGED <<schema, parked>>

\* reader.get_company_ids_by_field, and the test of how many ids it returned
CompanyMirror ==
    /\ op = "company" /\ pc = "mirror"
    /\ \E ids \in StaleAnswers :
        /\ stale' = ids
        /\ GoOn(IF Len(ids) = 1 THEN "fetch" ELSE CompanySearchPc(args.domain))
    /\ UNCHANGED <<catalogVars, updateVars>>
    /\ UNCHANGED <<remoteVars, op, args, idx, cands, kept, response, issued, before>>
    /\ Entitle
    /\ UNCHANGED <<schema, parked>>

\* find_company_by_id of the one cached id; TryAgainError is caught
CompanyFetch ==
    /\ op = "company" /\ pc = "fetch"
    /\ LET r == FindById(companies, stale[1])
       IN  /\ issued' = Append(issued, Req("find_company_by_id", <<stale[1]>>,
                                           IF r.kind = "raised" THEN 404 ELSE 200,
                                           r.value))
           /\ IF r.kind = "raised" /\ r.error = "TryAgainError"
              THEN GoOn(CompanySearchPc(args.domain))
              ELSE Finish(r)
    /\ UNCHANGED <<catalogVars, updateVars>>
    /\ UNCHANGED <<remoteVars, op, args, idx, stale, cands, kept, response, before>>
    /\ Entitle
    /\ UNCHANGED <<schema, parked>>

\* find_company_by_domain
CompanyDomain ==
    /\ op = "company" /\ pc = "domain"
    /\ \E status \in SearchStatuses :
        LET resp == IF status = 200 THEN SearchCompanies(args.domain) ELSE << >>
            r == IF status = 200
                 THEN FindCompanyByDomain(resp, args.domain, args.take_best_match)
                 ELSE Raise("HTTPError")
        IN  /\ issued' = Append(issued,
                               Req("find_company_by_domain", args.domain, status, r.value))
            /\ response' = IF status = 200 THEN resp ELSE response
            /\ Settle(r, "name")
    /\ UNCHANGED <<catalogVars, updateVars>>
    /\ UNCHANGED <<remoteVars, op, args, idx, stale, cands, kept, before>>
    /\ Entitle
    /\ UNCHANGED <<schema, parked>>

\* find_company_by_name
CompanyName ==
    /\ op = "company" /\ pc = "name"
    /\ \E status \in SearchStatuses :
        LET resp == IF status = 200 THEN SearchCompanies(args.name) ELSE << >>
            r == IF status = 200
                 THEN FindCompanyByName(resp, args.name, args.take_best_match)
                 ELSE Raise("HTTPError")
        IN  /\ issued' = Append(issued,
                               Req("find_company_by_name", args.name, status, r.value))
            /\ response' = IF status = 200 THEN resp ELSE response
            /\ Settle(r, "create")
    /\ UNCHANGED <<catalogVars, updateVars>>
    /\ UNCHANGED <<remoteVars, op, args, idx, stale, cands, kept, before>>
    /\ Entitle
    /\ UNCHANGED <<schema, parked>>

\* faulty variant of CompanyCreate: no create is issued when the remote holds
\* a company of that name and domain by now
CompanyCreateIfAbsent ==
    /\ op = "company" /\ pc = "create"
    /\ \E status \in CreateStatuses :
        LET created == [id |-> Len(companies) + 1, name |-> args.name,
                        domains |-> IF args.domain = None THEN {} ELSE {args.domain}]
            held == {i \in DOMAIN companies : /\ companies[i].name = created.name
                                              /\ companies[i].domains = created.domains}
        IN  IF held # {}
            THEN /\ issued' = issued
                 /\ companies' = companies
                 /\ Finish(Ret(<<companies[CHOOSE i \in held : TRUE]>>))
            ELSE /\ issued' = Append(issued, Req("create_company", << >>, status,
                                                 IF status = 200 THEN <<created>> ELSE << >>))
                 /\ companies' = IF status = 200 THEN Append(companies, created)
                                  ELSE companies
                 /\ Finish(CreateCompanyResult(status, created))
    /\ UNCHANGED <<catalogVars, updateVars>>
    /\ UNCHANGED <<people, opportunities, listEntries, fieldValues,
                   op, args, idx, stale, cands, kept, response, before>>
    /\ Entitle
    /\ UNCHANGED <<schema, parked>>

\* create_company with the caller's attributes
CompanyCreate ==
    /\ op = "company" /\ pc = "create"
    /\ \E status \in CreateStatuses :
        LET created == [id |-> Len(companies) + 1, name |-> args.name,
                        domains |-> IF args.domain = None THEN {} ELSE {args.domain}]
        IN  /\ issued' = Append(issued, Req("create_company", << >>, status,
                                            IF status = 200 THEN <<created>> ELSE << >>))
            /\ companies' = IF status = 200 THEN Append(companies, created) ELSE companies
            /\ Finish(CreateCompanyResult(status, created))
    /\ UNCHANGED <<catalogVars, updateVars>>
    /\ UNCHANGED <<people, opportunities, listEntries, fieldValues,
                   op, args, idx, stale, cands, kept, response, before>>
    /\ Entitle
    /\ UNCHANGED <<schema, parked>>

(***************************************************************************)
(* Writer.find_or_create_opportunity                                       *)
(***************************************************************************)
OpportunityStart ==
    \E name \in ArgOpportunityNames, list_id \in ListIds :
        /\ Begin("opportunity", [name |-> name, list_id |-> list_id])
        /\ outcome' = NoOutcome
        /\ pc' = "search"
        /\ Entitle
        /\ UNCHANGED <<schema, parked>>

\* find_opportunity_by_name
OpportunitySearch ==
    /\ op = "opportunity" /\ pc = "search"
    /\ \E status \in SearchStatuses :
        LET resp == IF status = 200 THEN SearchOpportunities(args.name) ELSE << >>
            r == IF status = 200
                 THEN FindOpportunityByName(resp, args.list_id, args.name)
                 ELSE Raise("HTTPError")
        IN  /\ issued' = Append(issued,
                               Req("find_opportunity_by_name", args.name, status, r.value))
            /\ response' = IF status = 200 THEN resp ELSE response
            /\ Settle(r, "create")
    /\ UNCHANGED <<catalogVars, updateVars>>
    /\ UNCHANGED <<remoteVars, op, args, idx, stale, cands, kept, before>>
    /\ Entitle
    /\ UNCHANGED <<schema, parked>>

\* create_opportunity with the caller's attributes
OpportunityCreate ==
    /\ op = "opportunity" /\ pc = "create"
    /\ \E status \in CreateStatuses :
        LET created == [id |-> Len(opportunities) + 1, name |-> args.name,
                        list_id |-> args.list_id]
        IN  /\ issued' = Append(issued, Req("create_opportunity", << >>, status,
                                            IF status = 200 THEN <<created>> ELSE << >>))
            /\ opportunities' =
                   IF status = 200 THEN Append(opportunities, created) ELSE opportunities
            /\ Finish(CreateOpportunityResult(status, created))
    /\ UNCHANGED <<catalogVars, updateVars>>
    /\ UNCHANGED <<people, companies, listEntries, fieldValues,
                   op, args, idx, stale, cands, kept, response, before>>
    /\ Entitle
    /\ UNCHANGED <<schema, parked>>

(***************************************************************************)
(* The remote field schema, and Writer's resolution of a field name to a   *)
(* (versioned field, legacy field) pair.                                   *)
(***************************************************************************)
\* fetch_fields: the legacy (v1) fields
V1Fields ==
    << [id |-> 10, allows_multiple |-> FALSE], [id |-> 11, allows_multiple |-> TRUE],
       [id |-> 13, allows_multiple |-> FALSE], [id |-> 14, allows_multiple |-> FALSE] >>

\* a field of the v2 client (FieldMetadata)
FieldMetadata(name, type, affinity_id, value_type) ==
    [name |-> name, type |-> type, affinity_id |-> affinity_id, value_type |-> value_type]

\* the versions of the remote field schema: 0 is the schema the Writer meets
\* first in most behaviours; in 1 list 2 has gained a field of its own; in 2
\* list 2 has a field whose id holds no dash; in 3 a global field has such an id
SchemaVersions == 0..3

\* get_people_fields of the v2 client under a version of the schema
PeopleFieldsOf(version) ==
    << FieldMetadata(<<"t">>, "global", <<"f", "-", "1", "1">>, "dropdown-multi"),
       FieldMetadata(<<"e">>, "enriched", <<"e">>, "text"),
       FieldMetadata(<<"n">>, "global", <<"f", "-", "1", "3">>, "number") >>
    \o (IF version = 3
        THEN << FieldMetadata(<<"d">>, "global", <<"1", "3">>, "number") >>
        ELSE << >>)

\* get_people_fields of the v2 client
PeopleFields == PeopleFieldsOf(schema)

\* get_company_fields of the v2 client
CompanyFields ==
    << FieldMetadata(<<"T">>, "global", <<"f", "-", "1", "1">>, "dropdown-multi") >>

\* the affinity ids of the two reserved pseudo-fields of a list
Persons == <<"p", "e", "r", "s", "o", "n", "s">>

Companies == <<"c", "o", "m", "p", "a", "n", "i", "e", "s">>

\* get_list_fields(list_id) of the v2 client under a version of the schema.
\* List 1 has a field with a legacy counterpart, the reserved pseudo-field
\* persons, a field without counterpart and a field whose name a global field
\* has too; list 2 has a pseudo-field only, until the schema changes
ListFieldsOf(version, list_id) ==
    IF list_id = 1
    THEN << FieldMetadata(<<"s">>, "list", <<"f", "-", "1", "0">>, "text"),
            FieldMetadata(<<"p">>, "list", Persons, "person-multi"),
            FieldMetadata(<<"q">>, "list", <<"f", "-", "1", "2">>, "text"),
            FieldMetadata(<<"N">>, "list", <<"f", "-", "1", "4">>, "number") >>
    ELSE << FieldMetadata(<<"c">>, "list", Companies, "company-multi") >>
         \o (CASE version = 1 ->
                    << FieldMetadata(<<"N">>, "list", <<"f", "-", "1", "4">>, "number") >>
               [] version = 2 ->
                    << FieldMetadata(<<"d">>, "list", <<"1", "4">>, "number") >>
               [] OTHER -> << >>)

\* get_list_fields(list_id) of the v2 client
ListFields(list_id) == ListFieldsOf(schema, list_id)

Digits == {"0", "1", "2", "3", "4", "5", "6", "7", "8", "9"}

DigitValue(c) ==
    CASE c = "0" -> 0 [] c = "1" -> 1 [] c = "2" -> 2 [] c = "3" -> 3 [] c = "4" -> 4
      [] c = "5" -> 5 [] c = "6" -> 6 [] c = "7" -> 7 [] c = "8" -> 8 [] OTHER -> 9

\* str.split('-'): the segments between the dashes
RECURSIVE SplitDash(_)
SplitDash(s) ==
    IF \A i \in 1..Len(s) : s[i] # "-"
    THEN <<s>>
    ELSE LET d == CHOOSE i \in 1..Len(s) : s[i] = "-" /\ \A j \in 1..(i - 1) : s[j] # "-"
         IN  <<SubSeq(s, 1, d - 1)>> \o SplitDash(SubSeq(s, d + 1, Len(s)))

\* int(s) of a string of decimal digits
RECURSIVE DecimalValue(_)
DecimalValue(s) ==
    IF Len(s) = 0 THEN 0
    ELSE 10 * DecimalValue(SubSeq(s, 1, Len(s) - 1)) + DigitValue(s[Len(s)])

\* int(s): the number, or ValueError
ParseInt(s) ==
    IF Len(s) > 0 /\ \A i \in 1..Len(s) : s[i] \in Digits
    THEN [kind |-> "int", n |-> DecimalValue(s), error |-> ""]
    ELSE [kind |-> "raised", n |-> 0, error |-> "ValueError"]

\* v1_fields.get(v1_id), v1_fields keyed by the integer ids
V1FieldById(v1_id) ==
    IF v1_id.kind = "int" /\ \E i \in 1..Len(V1Fields) : V1Fields[i].id = v1_id.n
    THEN <<V1Fields[CHOOSE i \in 1..Len(V1Fields) : V1Fields[i].id = v1_id.n]>>
    ELSE << >>

\* __fields, line 81: int(field.affinity_id.split('-')[1])
GlobalV1Id(affinity_id) ==
    LET parts == SplitDash(affinity_id)
    IN  IF Len(parts) < 2 THEN [kind |-> "raised", n |-> 0, error |-> "IndexError"]
        ELSE ParseInt(parts[2])

\* get_list_fields, line 102: the same when the id holds a dash, else the id itself
ListV1Id(affinity_id) ==
    IF \E i \in 1..Len(affinity_id) : affinity_id[i] = "-"
    THEN ParseInt(SplitDash(affinity_id)[2])
    ELSE [kind |-> "str", n |-> 0, error |-> ""]

EmptyDict == [k \in {} |-> << >>]

OkDict(d) == [kind |-> "ok", dict |-> d, error |-> ""]

\* the loop of __fields (global) and of get_list_fields (list) over fields[k..]
RECURSIVE BuildFields(_, _, _, _)
BuildFields(fields, k, out, list_scoped) ==
    IF k > Len(fields) THEN OkDict(out)
    ELSE LET field == fields[k]
             skipped ==
                 \/ field.type \notin {"global", "list"}
                 \/ list_scoped /\ field.affinity_id \in {Persons, Companies}
             v1_id == IF list_scoped THEN ListV1Id(field.affinity_id)
                      ELSE GlobalV1Id(field.affinity_id)
         IN  IF skipped THEN BuildFields(fields, k + 1, out, list_scoped)
             ELSE IF v1_id.kind = "raised"
             THEN [kind |-> "raised", dict |-> EmptyDict, error |-> v1_id.error]
             ELSE BuildFields(fields, k + 1,
                              (Upper(field.name) :> [field |-> field,
                                                     v1_field |-> V1FieldById(v1_id)]) @@ out,
                              list_scoped)

\* lines 73-86 of Writer.__fields under each version of the schema: the dict
\* built from the fetched fields, or the error the loop raises
BuiltGlobalFields ==
    [version \in SchemaVersions |->
        BuildFields(PeopleFieldsOf(version) \o CompanyFields, 1, EmptyDict, FALSE)]

\* lines 73-86 of Writer.__fields: the dict built from the fields fetched now
GlobalFields == BuiltGlobalFields[schema]

\* lines 93-105 of Writer.get_list_fields under each version of the schema
BuiltListFields ==
    [version \in SchemaVersions |->
        [list_id \in {1, 2} |-> BuildFields(ListFieldsOf(version, list_id), 1, EmptyDict, TRUE)]]

\* lines 93-105 of Writer.get_list_fields: the dict built from the fields fetched now
GetListFields(list_id) == BuiltListFields[schema][list_id]

\* the Writer's caches and fetch log as one value
Caches ==
    [v1_fields |-> cached_v1_fields, fields |-> cached_fields,
     list_fields |-> cached_list_fields, fetched |-> fetched]

\* a fetch of field definitions from the remote
Fetch(kind, list_id) == [kind |-> kind, list_id |-> list_id]

\* Writer.__v1_fields, a cached property: fetched on its first access
WithV1Fields(c) ==
    IF c.v1_fields # << >> THEN c
    ELSE [c EXCEPT !.v1_fields = <<V1Fields>>,
                   !.fetched = Append(@, Fetch("fields", 0))]

\* a catalog access that answers result and leaves the caches as c
Accessed(result, c) == [result |-> result, caches |-> c]

\* the caches c with the fetches logged
Logged(c, fetches) == [c EXCEPT !.fetched = @ \o fetches]

\* line 86, the cached property stores what __fields returns; a computation
\* that raises stores nothing
StoreFields(c, built) ==
    Accessed(built, IF built.kind = "ok" THEN [c EXCEPT !.fields = <<built.dict>>] ELSE c)

\* Writer.__fields, a cached property: the dict and the caches after the access
CachedFields(c) ==
    IF c.fields # << >> THEN Accessed(OkDict(c.fields[1]), c)
    ELSE StoreFields(Logged(WithV1Fields(c), <<Fetch("people", 0), Fetch("company", 0)>>),
                     GlobalFields)

\* line 107: the dict built is stored under the list id
StoreListFields(c, list_id, built) ==
    Accessed(built, IF built.kind = "ok"
                    THEN [c EXCEPT !.list_fields = (list_id :> built.dict) @@ @]
                    ELSE c)

\* Writer.get_list_fields: the cached dict when there is one and it is not
\* empty (line 89 tests its truth), else a fetch whose result is stored
CachedListFields(c, list_id) ==
    IF list_id \in DOMAIN c.list_fields /\ DOMAIN c.list_fields[list_id] # {}
    THEN Accessed(OkDict(c.list_fields[list_id]), c)
    ELSE StoreListFields(Logged(WithV1Fields(c), <<Fetch("list", list_id)>>), list_id,
                         GetListFields(list_id))

\* the result r of a resolution that leaves the caches as c
Resolution(r, c) == [kind |-> r.kind, error |-> r.error, value |-> r.value, caches |-> c]

\* lines 121-126: the lookup of the name in the merged dict
LookUp(fields, field_name, c) ==
    IF Upper(field_name) \in DOMAIN fields
    THEN Resolution(Ret(<<fields[Upper(field_name)]>>), c)
    ELSE Resolution(Raise("FieldNotFoundError"), c)

\* faulty variant of Overlay: the global dict is laid over the list's
OverlayGlobalFirst(g, l, field_name) ==
    IF l.result.kind = "raised" THEN Resolution(Raise(l.result.error), l.caches)
    ELSE LookUp(g.result.dict @@ l.result.dict, field_name, l.caches)

\* lines 118-119: the list's dict laid over the global one g
Overlay(g, l, field_name) ==
    IF l.result.kind = "raised" THEN Resolution(Raise(l.result.error), l.caches)
    ELSE LookUp(l.result.dict @@ g.result.dict, field_name, l.caches)

\* lines 116-126 once __fields answered g
GetFieldFrom(g, field_name, list_id) ==
    IF g.result.kind = "raised" THEN Resolution(Raise(g.result.error), g.caches)
    ELSE IF list_id # 0
    THEN Overlay(g, CachedListFields(g.caches, list_id), field_name)
    ELSE LookUp(g.result.dict, field_name, g.caches)

\* Writer.__get_field with the caches as c: the pair or the error raised, and
\* the caches afterwards.  list_id 0 stands for None
GetField(c, field_name, list_id) == GetFieldFrom(CachedFields(c), field_name, list_id)

\* the caches c become the Writer's
Remember(c) ==
    /\ cached_v1_fields' = c.v1_fields
    /\ cached_fields' = c.fields
    /\ cached_list_fields' = c.list_fields
    /\ fetched' = c.fetched

(***************************************************************************)
(* Writer.find_or_create_list_entry                                        *)
(***************************************************************************)
\* the remote's answer to fetch_all_list_entries(list_id)
FetchAllListEntries(list_id) == SelectSeq(listEntries, LAMBDA e : e.list_id = list_id)

\* the remote's answer to fetch_field_values(..., list_entry_id)
FetchFieldValues(list_entry_id) ==
    SelectSeq(fieldValues, LAMBDA v : v.list_entry_id = list_entry_id)

\* [value.value for value in values]
ValuesOf(values) == [i \in 1..Len(values) |-> values[i].value]

\* lines 299-313, the loop over qualifiers[k..] for one entry.  current is
\* current_field_values, which the loop rebinds: FieldValue objects before the
\* first qualifier (raw FALSE), bare values after it (raw TRUE), and a bare
\* value has no field_id.  Answers "match", "no match" or the error raised,
\* and the caches after the resolutions made.
RECURSIVE QualifierLoop(_, _, _, _, _, _)
\* faulty variant of QualifierRound: the entry's values are not narrowed to
\* those of the qualifier's field
QualifierRoundAnyField(got, current, raw, qualifiers, k, list_id) ==
    IF got.kind = "raised" THEN [answer |-> got.error, caches |-> got.caches]
    ELSE IF current # << >> /\ (raw \/ got.value[1].v1_field = << >>)
    THEN [answer |-> "AttributeError", caches |-> got.caches]
    ELSE LET desired_field_value == qualifiers[k].values
             filtered == ValuesOf(current)
             missing_values ==
                 SelectSeq(desired_field_value, LAMBDA value : value \notin Range(filtered))
             extra_values ==
                 SelectSeq(filtered, LAMBDA value : value \notin Range(desired_field_value))
         IN  IF missing_values # << >> \/ extra_values # << >>
             THEN [answer |-> "no match", caches |-> got.caches]
             ELSE QualifierLoop(got.caches, filtered, TRUE, qualifiers, k + 1, list_id)

\* lines 301-313, one round of the loop, its field resolved as got
QualifierRound(got, current, raw, qualifiers, k, list_id) ==
    IF got.kind = "raised" THEN [answer |-> got.error, caches |-> got.caches]
    ELSE IF current # << >> /\ (raw \/ got.value[1].v1_field = << >>)
    THEN [answer |-> "AttributeError", caches |-> got.caches]
    ELSE LET desired_field_value == qualifiers[k].values
             filtered ==
                 IF current = << >> THEN << >>
                 ELSE ValuesOf(SelectSeq(current, LAMBDA value :
                          value.field_id = got.value[1].v1_field[1].id))
             missing_values ==
                 SelectSeq(desired_field_value, LAMBDA value : value \notin Range(filtered))
             extra_values ==
                 SelectSeq(filtered, LAMBDA value : value \notin Range(desired_field_value))
         IN  IF missing_values # << >> \/ extra_values # << >>
             THEN [answer |-> "no match", caches |-> got.caches]
             ELSE QualifierLoop(got.caches, filtered, TRUE, qualifiers, k + 1, list_id)

QualifierLoop(c, current, raw, qualifiers, k, list_id) ==
    IF k > Len(qualifiers) THEN [answer |-> "match", caches |-> c]
    ELSE QualifierRound(GetField(c, qualifiers[k].name, list_id), current, raw,
                        qualifiers, k, list_id)

\* faulty variant of DecideListEntry: the first of several entries is taken
DecideListEntryFirst(mathing_entries) ==
    IF mathing_entries # << >> THEN Ret(<<mathing_entries[1]>>) ELSE Ret(<< >>)

\* lines 320-326, once the entries that match are known: the result, or << >>
\* when an entry is to be created
DecideListEntry(mathing_entries) ==
    IF Len(mathing_entries) > 1 THEN Raise("ValueError")
    ELSE IF mathing_entries # << >> THEN Ret(<<mathing_entries[1]>>)
    ELSE Ret(<< >>)

ListEntryStart ==
    \E entity_id \in {1}, list_id \in {1}, qualifiers \in QualifierChoices :
        /\ Begin("list_entry", [entity_id |-> entity_id, list_id |-> list_id,
                                qualifiers |-> qualifiers])
        /\ outcome' = NoOutcome
        /\ pc' = "entries"
        /\ Entitle
        /\ UNCHANGED <<schema, parked>>

\* fetch_all_list_entries and the filter on entity_id
ListEntryFetch ==
    /\ op = "list_entry" /\ pc = "entries"
    /\ \E status \in SearchStatuses :
        /\ issued' = Append(issued, Req("fetch_all_list_entries", <<args.list_id>>,
                                        status, << >>))
        /\ IF status # 200
           THEN Finish(Raise("HTTPError")) /\ UNCHANGED cands
           ELSE LET mathing_entries ==
                        SelectSeq(FetchAllListEntries(args.list_id),
                                  LAMBDA entry : entry.entity_id = args.entity_id)
                IN  /\ cands' = mathing_entries
                    /\ IF mathing_entries # << >> /\ args.qualifiers # << >>
                       THEN GoOn("values")
                       ELSE Settle(DecideListEntry(mathing_entries), "create")
    /\ UNCHANGED <<catalogVars, updateVars>>
    /\ UNCHANGED <<remoteVars, op, args, idx, stale, kept, response, before>>
    /\ Entitle
    /\ UNCHANGED <<schema, parked>>

\* one round of the loop over mathing_entries: fetch_field_values of entry idx
\* and its qualifiers; after the last entry, the decision
ListEntryValues ==
    /\ op = "list_entry" /\ pc = "values"
    /\ \E status \in SearchStatuses :
        /\ issued' = Append(issued, Req("fetch_field_values", <<cands[idx].id>>,
                                        status, << >>))
        /\ IF status # 200
           THEN Finish(Raise("HTTPError")) /\ UNCHANGED <<idx, kept, catalogVars>>
           ELSE LET entry == cands[idx]
                    loop == QualifierLoop(Caches, FetchFieldValues(entry.id), FALSE,
                                          args.qualifiers, 1, args.list_id)
                    match == loop.answer
                    still_matching_entries ==
                        IF match = "match" THEN Append(kept, entry) ELSE kept
                IN  /\ Remember(loop.caches)
                    /\ IF match \notin {"match", "no match"}
                       THEN Finish(Raise(match)) /\ UNCHANGED <<idx, kept>>
                       ELSE /\ kept' = still_matching_entries
                            /\ IF idx < Len(cands)
                               THEN GoOn("values") /\ idx' = idx + 1
                               ELSE /\ Settle(DecideListEntry(still_matching_entries),
                                              "create")
                                    /\ idx' = idx
    /\ UNCHANGED updateVars
    /\ UNCHANGED <<remoteVars, op, args, stale, cands, response, before>>
    /\ Entitle
    /\ UNCHANGED <<schema, parked>>

\* faulty variant of ListEntryCreate: the entry is created first, and the test
\* for several entries of the entity is made afterwards
ListEntryCreateThenCheck ==
    /\ op = "list_entry" /\ pc = "create"
    /\ \E status \in CreateStatuses :
        LET created == [id |-> Len(listEntries) + 1, list_id |-> args.list_id,
                        entity_id |-> args.entity_id]
        IN  /\ issued' = Append(issued, Req("create_list_entry", << >>, status,
                                            IF status = 200 THEN <<created>> ELSE << >>))
            /\ listEntries' =
                   IF status = 200 THEN Append(listEntries, created) ELSE listEntries
            /\ Finish(IF status # 200 THEN Raise("HTTPError")
                      ELSE IF cands # << >> THEN Raise("ValueError")
                      ELSE Ret(<<created>>))
    /\ UNCHANGED <<catalogVars, updateVars>>
    /\ UNCHANGED <<people, companies, opportunities, fieldValues,
                   op, args, idx, stale, cands, kept, response, before>>
    /\ Entitle
    /\ UNCHANGED <<schema, parked>>

\* create_list_entry
ListEntryCreate ==
    /\ op = "list_entry" /\ pc = "create"
    /\ \E status \in CreateStatuses :
        LET created == [id |-> Len(listEntries) + 1, list_id |-> args.list_id,
                        entity_id |-> args.entity_id]
        IN  /\ issued' = Append(issued, Req("create_list_entry", << >>, status,
                                            IF status = 200 THEN <<created>> ELSE << >>))
            /\ listEntries' =
                   IF status = 200 THEN Append(listEntries, created) ELSE listEntries
            /\ Finish(IF status = 200 THEN Ret(<<created>>) ELSE Raise("HTTPError"))
    /\ UNCHANGED <<catalogVars, updateVars>>
    /\ UNCHANGED <<people, companies, opportunities, fieldValues,
                   op, args, idx, stale, cands, kept, response, before>>
    /\ Entitle
    /\ UNCHANGED <<schema, parked>>

(***************************************************************************)
(* Writer.update_fields                                                    *)
(***************************************************************************)
\* the value types with a plain class and those with a parameterized list
ScalarTypes ==
    {"person", "company", "filterable-text", "number", "datetime", "location",
     "text", "ranked-dropdown", "dropdown"}

MultiTypes ==
    {"person-multi", "company-multi", "filterable-text-multi", "number-multi",
     "location-multi", "dropdown-multi"}

ElementClass(value_type) ==
    CASE value_type \in {"person", "person-multi", "company", "company-multi"} -> "int"
      [] value_type \in {"number", "number-multi"} -> "float"
      [] value_type = "datetime" -> "datetime"
      [] value_type \in {"location", "location-multi"} -> "Location"
      [] OTHER -> "str"

\* affinity_types.FieldTypeMap: the class of a value type; generic tells a
\* parameterized list such as list[int]
FieldTypeMap ==
    [value_type \in ScalarTypes \cup MultiTypes |->
        [class |-> ElementClass(value_type), generic |-> value_type \in MultiTypes]]

\* the class of a scalar value
ClassOf(v) ==
    IF v = NoValue THEN "NoneType" ELSE IF v \in {"0.0", "5.0"} THEN "float" ELSE "str"

\* the truth of a scalar value: None, '' and 0.0 are false
Truthy(v) == v \notin {NoValue, "", "0.0"}

\* Writer.__check_field_value_type: "ok" or the error raised.  isinstance raises
\* TypeError when its second argument is a parameterized generic
CheckFieldValueType(value, value_type) ==
    IF value_type \notin DOMAIN FieldTypeMap THEN "ValueError"
    ELSE IF FieldTypeMap[value_type].generic THEN "TypeError"
    ELSE LET is_instance ==
                 ~value.is_list /\ ClassOf(value.values[1]) = FieldTypeMap[value_type].class
             is_none == ~value.is_list /\ value.values[1] = NoValue
         IN  IF ~is_instance /\ ~is_none THEN "ValueError" ELSE "ok"

\* the remote's answer to fetch_field_values of update_fields: the values of the
\* list entry when one is given, else those of the entity itself
FetchEntityFieldValues(list_entry_id) ==
    SelectSeq(fieldValues, LAMBDA v : v.list_entry_id = list_entry_id)

\* what lines 358-383 of __update_field come to: "raised" with the error,
\* "return" when nothing is to be done, or "plan" with the values to remove and
\* to add; pair is the resolved (field, v1_field) and caches the caches afterwards
Planned(kind, error, pair, remove, add, c) ==
    [kind |-> kind, error |-> error, pair |-> pair, remove |-> remove, add |-> add,
     caches |-> c]

\* lines 378-383: the two differences, and the return when both are empty
Diff(pair, c, field_value, current_values) ==
    LET remove == SelectSeq(current_values, LAMBDA v : v.value \notin Range(field_value))
        add == SelectSeq(field_value, LAMBDA v : v \notin Range(ValuesOf(current_values)))
    IN  IF remove = << >> /\ add = << >>
        THEN Planned("return", "", pair, << >>, << >>, c)
        ELSE Planned("plan", "", pair, remove, add, c)

\* faulty variant of Reconcile: the current values are overwritten whatever
\* overwrite says
ReconcileAlways(pair, c, value, current_values, overwrite) ==
    IF ~pair[1].v1_field[1].allows_multiple /\ value.is_list
    THEN Planned("raised", "ValueError", << >>, << >>, << >>, c)
    ELSE Diff(pair, c, SelectSeq(value.values, Truthy), current_values)

\* lines 363-373 for a field with a legacy counterpart: the test of overwrite,
\* that of multiplicity, and the falsy values dropped from the desired ones
Reconcile(pair, c, value, current_values, overwrite) ==
    IF current_values # << >> /\ ~overwrite
    THEN Planned("return", "", pair, << >>, << >>, c)
    ELSE IF ~pair[1].v1_field[1].allows_multiple /\ value.is_list
    THEN Planned("raised", "ValueError", << >>, << >>, << >>, c)
    ELSE Diff(pair, c, SelectSeq(value.values, Truthy), current_values)

\* faulty variant of CurrentOfField: every fetched value counts as one of the
\* field
CurrentOfFieldAll(current_values, v1_field) == current_values

\* line 361: the fetched values whose field_id is the legacy field's id
CurrentOfField(current_values, v1_field) ==
    SelectSeq(current_values, LAMBDA v : v.field_id = v1_field.id)

\* faulty variant of Validate: the value's type is not checked
ValidateUnchecked(pair, c, value, current, overwrite) ==
    IF pair[1].v1_field = << >>
    THEN Planned("raised", "AttributeError", << >>, << >>, << >>, c)
    ELSE Reconcile(pair, c, value,
                   CurrentOfField(current, pair[1].v1_field[1]),
                   overwrite)

\* lines 359-373 once the field is resolved as pair.  A field without legacy
\* counterpart has v1_field None, whose attributes lines 361 and 367 read
Validate(pair, c, value, current, overwrite) ==
    IF CheckFieldValueType(value, pair[1].field.value_type) # "ok"
    THEN Planned("raised", CheckFieldValueType(value, pair[1].field.value_type),
                 << >>, << >>, << >>, c)
    ELSE IF pair[1].v1_field = << >>
    THEN Planned("raised", "AttributeError", << >>, << >>, << >>, c)
    ELSE Reconcile(pair, c, value,
                   CurrentOfField(current, pair[1].v1_field[1]),
                   overwrite)

\* lines 358-383 once __get_field answered got
PlanFrom(got, value, current, overwrite) ==
    IF got.kind = "raised"
    THEN Planned("raised", got.error, << >>, << >>, << >>, got.caches)
    ELSE Validate(got.value, got.caches, value, current, overwrite)

\* lines 358-383 of Writer.__update_field for the item value of the fields dict
UpdateFieldPlan(c, value, current, overwrite, list_id) ==
    PlanFrom(GetField(c, value.name, list_id), value, current, overwrite)

\* faulty variant of CheckScope: the test for an opportunity is missing
CheckScopeListOnly(entity_type, list_entry_id, list_id) ==
    IF list_entry_id # 0 /\ list_id = 0 THEN "ValueError"
    ELSE IF list_id # 0 /\ list_entry_id = 0 THEN "ValueError"
    ELSE "ok"

\* lines 410-417 of update_fields: the error the arguments raise, or "ok"
CheckScope(entity_type, list_entry_id, list_id) ==
    IF entity_type = "opportunity" /\ list_entry_id = 0
    THEN "CannotDetermineCorrectEntityError"
    ELSE IF list_entry_id # 0 /\ list_id = 0 THEN "ValueError"
    ELSE IF list_id # 0 /\ list_entry_id = 0 THEN "ValueError"
    ELSE "ok"

UpdateStart ==
    \E fields \in FieldsChoices, scope \in ScopeChoices, overwrite \in BOOLEAN :
        /\ Begin("update_fields",
                 [entity_id |-> 1, entity_type |-> scope.entity_type, fields |-> fields,
                  list_entry_id |-> scope.list_entry_id, list_id |-> scope.list_id,
                  overwrite |-> overwrite])
        /\ LET checked == CheckScope(scope.entity_type, scope.list_entry_id, scope.list_id)
           IN  IF checked # "ok" THEN Finish(Raise(checked))
               ELSE outcome' = NoOutcome /\ pc' = "current"
        /\ Entitle
        /\ UNCHANGED <<schema, parked>>

\* the call goes on with the next item of fields, or returns after the last
NextField ==
    IF idx < Len(args.fields)
    THEN GoOn("field") /\ idx' = idx + 1
    ELSE Finish(Ret(<< >>)) /\ idx' = idx

\* fetch_field_values, once for the call
UpdateFetch ==
    /\ op = "update_fields" /\ pc = "current"
    /\ \E status \in SearchStatuses :
        /\ issued' = Append(issued, Req("fetch_field_values", <<args.list_entry_id>>,
                                        status, << >>))
        /\ IF status # 200
           THEN Finish(Raise("HTTPError")) /\ response' = response
           ELSE /\ response' = FetchEntityFieldValues(args.list_entry_id)
                /\ IF args.fields = << >> THEN Finish(Ret(<< >>)) ELSE GoOn("field")
    /\ UNCHANGED <<catalogVars, updateVars>>
    /\ UNCHANGED <<remoteVars, op, args, idx, stale, cands, kept, before>>
    /\ Entitle
    /\ UNCHANGED <<schema, parked>>

\* faulty variant of AfterPlan: the additions are made before the removals
AfterPlanAddFirst(remove, add) ==
    IF add # << >> THEN GoOn("add") /\ idx' = idx
    ELSE IF remove # << >> THEN GoOn("remove") /\ idx' = idx
    ELSE NextField

\* where __update_field stands once values_to_remove and values_to_add are known
AfterPlan(remove, add) ==
    IF remove # << >> THEN GoOn("remove") /\ idx' = idx
    ELSE IF add # << >> THEN GoOn("add") /\ idx' = idx
    ELSE NextField

\* __update_field for item idx of fields, up to the first remote call it makes
UpdateField ==
    /\ op = "update_fields" /\ pc = "field"
    /\ LET plan == UpdateFieldPlan(Caches, args.fields[idx], response, args.overwrite,
                                   args.list_id)
       IN  /\ Remember(plan.caches)
           /\ resolved' = plan.pair
           /\ values_to_remove' = plan.remove
           /\ values_to_add' = plan.add
           /\ IF plan.kind = "raised" THEN Finish(Raise(plan.error)) /\ idx' = idx
              ELSE AfterPlan(plan.remove, plan.add)
    /\ UNCHANGED <<remoteVars, op, args, stale, cands, kept, response, issued, before>>
    /\ Entitle
    /\ UNCHANGED <<schema, parked>>

\* delete_field_value of the first value still to remove
UpdateRemove ==
    /\ op = "update_fields" /\ pc = "remove"
    /\ \E status \in SearchStatuses :
        LET value == values_to_remove[1]
        IN  /\ issued' = Append(issued, Req("delete_field_value", args.fields[idx].name,
                                            status, <<value>>))
            /\ IF status # 200
               THEN /\ Finish(Raise("HTTPError"))
                    /\ UNCHANGED <<fieldValues, values_to_remove, idx>>
               ELSE /\ fieldValues' = SelectSeq(fieldValues, LAMBDA v : v.id # value.id)
                    /\ values_to_remove' = Tail(values_to_remove)
                    /\ AfterPlan(Tail(values_to_remove), values_to_add)
    /\ UNCHANGED <<catalogVars, resolved, values_to_add>>
    /\ UNCHANGED <<people, companies, opportunities, listEntries,
                   op, args, stale, cands, kept, response, before>>
    /\ Entitle
    /\ UNCHANGED <<schema, parked>>

\* the id the remote gives the next field value it creates
NewFieldValueId ==
    1 + Len(before.fieldValues)
      + Cardinality({i \in DOMAIN issued :
                        issued[i].call = "create_field_value" /\ issued[i].status = 200})

\* create_field_value of the first value still to add; the request log keeps
\* the value with the entity_id of the request, the remote the fields of a
\* value that the Writer reads
UpdateAdd ==
    /\ op = "update_fields" /\ pc = "add"
    /\ \E status \in CreateStatuses :
        LET json == [field_id |-> resolved[1].v1_field[1].id, entity_id |-> args.entity_id,
                     value |-> values_to_add[1], list_entry_id |-> args.list_entry_id]
            created == [id |-> NewFieldValueId, field_id |-> json.field_id,
                        list_entry_id |-> json.list_entry_id, value |-> json.value]
        IN  /\ issued' = Append(issued,
                                Req("create_field_value", args.fields[idx].name, status,
                                    <<[entity_id |-> json.entity_id] @@ created>>))
            /\ IF status # 200
               THEN /\ Finish(Raise("HTTPError"))
                    /\ UNCHANGED <<fieldValues, values_to_add, idx>>
               ELSE /\ fieldValues' = Append(fieldValues, created)
                    /\ values_to_add' = Tail(values_to_add)
                    /\ AfterPlan(values_to_remove, Tail(values_to_add))
    /\ UNCHANGED <<catalogVars, resolved, values_to_remove>>
    /\ UNCHANGED <<people, companies, opportunities, listEntries,
                   op, args, stale, cands, kept, response, before>>
    /\ Entitle
    /\ UNCHANGED <<schema, parked>>

(***************************************************************************)
(* Specification.  A behaviour is one Writer call.  Initially the caller   *)
(* is about to invoke op, and the remote holds up to MaxRemote entities of *)
(* the one kind that operation reads (for a list entry call, entries and   *)
(* field values).                                                          *)
(***************************************************************************)
InitRemote ==
    \/ /\ op = "person"
       /\ people \in {WithIds(t) : t \in SeqsUpTo(PersonTemplates, MaxRemote)}
       /\ companies = << >> /\ opportunities = << >>
       /\ listEntries = << >> /\ fieldValues = << >>
    \/ /\ op = "company"
       /\ companies \in {WithIds(t) : t \in SeqsUpTo(CompanyTemplates, MaxRemote)}
       /\ people = << >> /\ opportunities = << >>
       /\ listEntries = << >> /\ fieldValues = << >>
    \/ /\ op = "opportunity"
       /\ opportunities \in {WithIds(t) : t \in SeqsUpTo(OpportunityTemplates, MaxRemote)}
       /\ people = << >> /\ companies = << >>
       /\ listEntries = << >> /\ fieldValues = << >>
    \/ /\ op = "list_entry"
       /\ listEntries \in {WithIds(t) : t \in SeqsUpTo(ListEntryTemplates, MaxRemote)}
       /\ fieldValues \in {WithIds(t) : t \in SeqsUpTo(FieldValueTemplates, MaxRemote)}
       /\ people = << >> /\ companies = << >> /\ opportunities = << >>
    \/ /\ op = "update_fields"
       /\ fieldValues \in {WithIds(t) : t \in SeqsUpTo(UpdateValueTemplates, MaxRemote)}
       /\ people = << >> /\ companies = << >> /\ opportunities = << >>
       /\ listEntries = << >>

\* no call has begun, and the Writer is as constructed
InitWriter ==
    /\ args = << >>
    /\ pc = "idle"
    /\ idx = 1
    /\ stale = << >>
    /\ cands = << >>
    /\ kept = << >>
    /\ response = << >>
    /\ issued = << >>
    /\ outcome = NoOutcome
    /\ before = Snapshot
    /\ cached_v1_fields = << >>
    /\ cached_fields = << >>
    /\ cached_list_fields = EmptyDict
    /\ fetched = << >>
    /\ resolved = << >>
    /\ values_to_remove = << >>
    /\ values_to_add = << >>
    /\ api_call_entitlement = << >>
    /\ inserted = << >>
    /\ parked = << >>

Init ==
    /\ InitRemote
    /\ schema = 0
    /\ InitWriter

Next ==
    \/ PersonStart \/ PersonMirror \/ PersonFetch \/ PersonEmail \/ PersonName
    \/ PersonCreate
    \/ CompanyStart \/ CompanyMirror \/ CompanyFetch \/ CompanyDomain \/ CompanyName
    \/ CompanyCreate
    \/ OpportunityStart \/ OpportunitySearch \/ OpportunityCreate
    \/ ListEntryStart \/ ListEntryFetch \/ ListEntryValues \/ ListEntryCreate
    \/ UpdateStart \/ UpdateFetch \/ UpdateField \/ UpdateRemove \/ UpdateAdd

Spec == Init /\ [][Next]_vars

(***************************************************************************)
(* A second specification, of find_or_create_list_entry alone: the remote  *)
(* holds three entries of entity 1 on list 1, whose values for the list    *)
(* field 10 are A, B and C in some order, and at most one value of the     *)
(* global field 11 on one of the entries.                                  *)
(***************************************************************************)
Orders == {o \in [1..3 -> {"A", "B", "C"}] : \A i, j \in 1..3 : o[i] = o[j] => i = j}

OtherValues == SeqsUpTo([field_id : {11}, list_entry_id : 1..3, value : {"A", "B"}], 1)

InitThreeEntries ==
    /\ op = "list_entry"
    /\ listEntries = WithIds([i \in 1..3 |-> [list_id |-> 1, entity_id |-> 1]])
    /\ \E o \in Orders, rest \in OtherValues :
           fieldValues =
               WithIds([i \in 1..3 |-> [field_id |-> 10, list_entry_id |-> i, value |-> o[i]]]
                       \o rest)
    /\ people = << >> /\ companies = << >> /\ opportunities = << >>
    /\ args = << >>
    /\ pc = "idle"
    /\ idx = 1
    /\ stale = << >>
    /\ cands = << >>
    /\ kept = << >>
    /\ response = << >>
    /\ issued = << >>
    /\ outcome = NoOutcome
    /\ before = Snapshot
    /\ cached_v1_fields = << >>
    /\ cached_fields = << >>
    /\ cached_list_fields = EmptyDict
    /\ fetched = << >>
    /\ resolved = << >>
    /\ values_to_remove = << >>
    /\ values_to_add = << >>
    /\ schema = 0
    /\ api_call_entitlement = << >>
    /\ inserted = << >>
    /\ parked = << >>

NextListEntry == ListEntryStart \/ ListEntryFetch \/ ListEntryValues \/ ListEntryCreate

SpecThreeEntries == InitThreeEntries /\ [][NextListEntry]_vars

(***************************************************************************)
(* A specification of two find_or_create_person or find_or_create_company  *)
(* calls of one Writer for the same logical entity.  The Writer holds no   *)
(* lock: the calls run one after the other or interleaved, the caller      *)
(* switching between them at any step.  The variables of the call hold the *)
(* call that runs, parked the one that waits.  The remote holds at most    *)
(* one entity at first.                                                    *)
(***************************************************************************)
\* the state of the call that runs
Call ==
    [args |-> args, pc |-> pc, idx |-> idx, stale |-> stale, response |-> response,
     issued |-> issued, outcome |-> outcome, before |-> before]

\* a call that has not begun
IdleCall ==
    [args |-> << >>, pc |-> "idle", idx |-> 1, stale |-> << >>, response |-> << >>,
     issued |-> << >>, outcome |-> NoOutcome, before |-> Snapshot]

\* the caller turns to the other call: the one that ran waits where it stood.
\* interleaved tells that a call was left before its end; a call that has not
\* begun is not left, and nothing is left once both calls are over
Switch ==
    /\ parked # << >>
    /\ pc # "idle"
    /\ ~(pc = "done" /\ parked[1].call.pc = "done")
    /\ parked' = <<[call |-> Call, interleaved |-> parked[1].interleaved \/ pc # "done"]>>
    /\ args' = parked[1].call.args
    /\ pc' = parked[1].call.pc
    /\ idx' = parked[1].call.idx
    /\ stale' = parked[1].call.stale
    /\ response' = parked[1].call.response
    /\ issued' = parked[1].call.issued
    /\ outcome' = parked[1].call.outcome
    /\ before' = IF parked[1].call.pc = "idle" THEN Snapshot ELSE parked[1].call.before
    /\ UNCHANGED <<remoteVars, op, cands, kept, catalogVars, updateVars, entitlementVars,
                   schema>>

\* both calls are for the same logical entity: they have the same arguments
SameEntity == parked[1].call.args \in {<< >>, args}

InitTwoCalls ==
    /\ \/ /\ op = "person"
          /\ people \in {WithIds(t) : t \in SeqsUpTo(PersonTemplates, 1)}
          /\ companies = << >>
       \/ /\ op = "company"
          /\ companies \in {WithIds(t) : t \in SeqsUpTo(CompanyTemplates, 1)}
          /\ people = << >>
    /\ opportunities = << >> /\ listEntries = << >> /\ fieldValues = << >>
    /\ schema = 0
    /\ args = << >>
    /\ pc = "idle"
    /\ idx = 1
    /\ stale = << >>
    /\ cands = << >>
    /\ kept = << >>
    /\ response = << >>
    /\ issued = << >>
    /\ outcome = NoOutcome
    /\ before = Snapshot
    /\ cached_v1_fields = << >>
    /\ cached_fields = << >>
    /\ cached_list_fields = EmptyDict
    /\ fetched = << >>
    /\ resolved = << >>
    /\ values_to_remove = << >>
    /\ values_to_add = << >>
    /\ api_call_entitlement = << >>
    /\ inserted = << >>
    /\ parked = <<[call |-> IdleCall, interleaved |-> FALSE]>>

\* a call begins with the arguments of the other call, if that one has begun
PersonStartSame == PersonStart /\ SameEntity'

CompanyStartSame == CompanyStart /\ SameEntity'

NextTwoCalls ==
    \/ PersonStartSame \/ CompanyStartSame
    \/ PersonMirror \/ PersonFetch \/ PersonEmail \/ PersonName \/ PersonCreate
    \/ CompanyMirror \/ CompanyFetch \/ CompanyDomain \/ CompanyName \/ CompanyCreate
    \/ Switch

SpecTwoCalls == InitTwoCalls /\ [][NextTwoCalls]_vars

(***************************************************************************)
(* A specification of AffinityBase._send_request alone: the client sends   *)
(* requests one after another, and the remote answers each with any status *)
(* and any of the six rate-limit headers.                                  *)
(***************************************************************************)
\* the values a rate-limit header may hold
HeaderValues == {1, 2}

\* the responses of the remote: a status, and headers among which any of the
\* six may be absent
Responses ==
    {[status |-> status, headers |-> [key \in present \cup {"Content-Type"} |-> v]] :
        status \in {200, 500}, present \in SUBSET RateLimitHeaders, v \in HeaderValues}

\* _send_request: raise_for_status, then __extract_rate_limit, then the body
SendRequest ==
    /\ op = "send_request"
    /\ \E r \in Responses :
        /\ response' = <<r>>
        /\ IF r.status # 200
           THEN /\ outcome' = Raise("HTTPError")
                /\ api_call_entitlement' = api_call_entitlement
           ELSE LET extracted == ExtractRateLimit(r.headers, api_call_entitlement)
                IN  /\ api_call_entitlement' = extracted.entitlement
                    /\ outcome' = IF extracted.kind = "raised" THEN Raise(extracted.error)
                                  ELSE Ret(<< >>)
    /\ pc' = "done"
    /\ UNCHANGED <<remoteVars, op, args, idx, stale, cands, kept, issued, before,
                   catalogVars, updateVars, inserted, schema, parked>>

InitSendRequest ==
    /\ op = "send_request"
    /\ people = << >> /\ companies = << >> /\ opportunities = << >>
    /\ listEntries = << >> /\ fieldValues = << >>
    /\ schema = 0
    /\ InitWriter

NextSendRequest == SendRequest

SpecSendRequest == InitSendRequest /\ [][NextSendRequest]_vars

(***************************************************************************)
(* A specification of the datetime normalisation of Writer.__update_field  *)
(* alone: any datetime is the field value, and the normalisation formats   *)
(* it for the wire.                                                        *)
(***************************************************************************)
\* datetime.datetime values: the calendar and clock parts, the microsecond and
\* the offset of the timezone in hours (None for a naive value)
Datetimes ==
    [year : {999, 1000, 2024, 9999}, month : {1, 12}, day : {2, 31}, hour : {0, 23},
     minute : {4, 59}, second : {0, 59}, microsecond : {0, 999999},
     tzinfo : {None, <<5>>}]

DigitChar(n) ==
    CASE n = 0 -> "0" [] n = 1 -> "1" [] n = 2 -> "2" [] n = 3 -> "3" [] n = 4 -> "4"
      [] n = 5 -> "5" [] n = 6 -> "6" [] n = 7 -> "7" [] n = 8 -> "8" [] OTHER -> "9"

\* the decimal digits of a natural number
RECURSIVE Decimal(_)
Decimal(n) ==
    IF n < 10 THEN <<DigitChar(n)>> ELSE Append(Decimal(n \div 10), DigitChar(n % 10))

\* the digits padded with zeros on the left up to the width
RECURSIVE ZeroPad(_, _)
ZeroPad(chars, width) ==
    IF Len(chars) >= width THEN chars ELSE ZeroPad(<<"0">> \o chars, width)

\* the width to which the C library's strftime pads %Y: glibc does not pad
\* the year, other libraries pad it to four digits
YearWidths == {1, 4}

\* value.strftime('%Y-%m-%dT%H:%M:%S'): %m, %d, %H, %M and %S are two digits,
\* %Y is as wide as the C library makes it; microsecond and tzinfo have no
\* directive
Strftime(value, year_width) ==
    ZeroPad(Decimal(value.year), year_width) \o <<"-">> \o
    ZeroPad(Decimal(value.month), 2) \o <<"-">> \o
    ZeroPad(Decimal(value.day), 2) \o <<"T">> \o
    ZeroPad(Decimal(value.hour), 2) \o <<":">> \o
    ZeroPad(Decimal(value.minute), 2) \o <<":">> \o
    ZeroPad(Decimal(value.second), 2)

\* __update_field is given a datetime as field_value
NormaliseStart ==
    /\ op = "normalise" /\ pc = "idle"
    /\ \E field_value \in Datetimes : args' = [field_value |-> field_value]
    /\ pc' = "format"
    /\ UNCHANGED <<remoteVars, op, idx, stale, cands, kept, response, issued, outcome,
                   before, catalogVars, updateVars, entitlementVars, schema, parked>>

\* the value is wrapped in a list, filter(None, ...) keeps it (a datetime is
\* never falsy), and the list's datetimes are formatted
Normalise ==
    /\ op = "normalise" /\ pc = "format"
    /\ \E year_width \in YearWidths :
        LET field_value == <<args.field_value>>
        IN  outcome' = Ret([i \in DOMAIN field_value |->
                                Strftime(field_value[i], year_width)])
    /\ pc' = "done"
    /\ UNCHANGED <<remoteVars, op, args, idx, stale, cands, kept, response, issued,
                   before, catalogVars, updateVars, entitlementVars, schema, parked>>

InitNormalise ==
    /\ op = "normalise"
    /\ people = << >> /\ companies = << >> /\ opportunities = << >>
    /\ listEntries = << >> /\ fieldValues = << >>
    /\ schema = 0
    /\ InitWriter

NextNormalise == NormaliseStart \/ Normalise

SpecNormalise == InitNormalise /\ [][NextNormalise]_vars

(***************************************************************************)
(* A third specification, of update_fields alone: the remote holds at most *)
(* one field value, its field schema is any of the versions and changes    *)
(* while the call runs.                                                    *)
(***************************************************************************)
\* the remote's field schema changes between two steps of the call
SchemaChange ==
    /\ op = "update_fields" /\ pc \notin {"idle", "done"}
    /\ \E version \in SchemaVersions \ {schema} : schema' = version
    /\ UNCHANGED <<remoteVars, op, args, pc, idx, stale, cands, kept, response, issued,
                   outcome, before, catalogVars, updateVars, entitlementVars, parked>>

InitSchema ==
    /\ op = "update_fields"
    /\ fieldValues \in {WithIds(t) : t \in SeqsUpTo(UpdateValueTemplates, 1)}
    /\ people = << >> /\ companies = << >> /\ opportunities = << >>
    /\ listEntries = << >>
    /\ schema \in SchemaVersions
    /\ InitWriter

NextSchema ==
    UpdateStart \/ UpdateFetch \/ UpdateField \/ UpdateRemove \/ UpdateAdd \/ SchemaChange

SpecSchema == InitSchema /\ [][NextSchema]_vars

(***************************************************************************)
(* Properties.                                                             *)
(***************************************************************************)
Last(s) == s[Len(s)]

CreateCalls == {"create_person", "create_company", "create_opportunity", "create_list_entry"}

FetchByIdCalls == {"find_person_by_id", "find_company_by_id"}

SearchCalls ==
    {"find_person_by_email", "find_person_by_name", "find_company_by_domain",
     "find_company_by_name", "find_opportunity_by_name"}

LookupCalls == FetchByIdCalls \cup SearchCalls

Started == pc # "idle"

\* the positions of the response whose entity satisfies Test
Positions(resp, Test(_)) == {i \in DOMAIN resp : Test(resp[i])}

Min(S) == CHOOSE x \in S : \A y \in S : x <= y

\* C1: in a person, company or opportunity call at most one create is issued,
\* every request before a create is a lookup that returned no entity, and a
\* lookup that returned an entity is the last request of the call, which
\* returns that entity.
C1_CreateOnlyAfterNoMatch ==
    (Started /\ op \in {"person", "company", "opportunity"}) =>
        /\ Cardinality({i \in DOMAIN issued : issued[i].call \in CreateCalls}) <= 1
        /\ \A i \in DOMAIN issued :
            issued[i].call \in CreateCalls =>
                \A j \in 1..(i - 1) :
                    issued[j].call \in LookupCalls /\ issued[j].result = << >>
        /\ \A j \in DOMAIN issued :
            (issued[j].call \in LookupCalls /\ issued[j].result # << >>) =>
                /\ j = Len(issued)
                /\ pc = "done"
                /\ outcome = Ret(issued[j].result)

\* a call whose cached fetch, email searches and name search all found nothing
\* and whose create succeeded
C1_Witness ==
    /\ op = "person" /\ pc = "done"
    /\ Len(issued) = 4
    /\ issued[1].call = "find_person_by_id"
    /\ issued[4].call = "create_person" /\ issued[4].status = 200
    /\ outcome = Ret(issued[4].result)

HoldsEmail(p, e) == \E x \in p.emails : Lower(x) = Lower(e)

\* the remote of claim C2: two people, each with emails, no email in common and
\* different names
TwoPeopleDistinctEmails(ps) ==
    /\ Len(ps) = 2
    /\ ps[1].emails # {} /\ ps[2].emails # {}
    /\ \A e \in ps[1].emails : ~HoldsEmail(ps[2], e)
    /\ Upper(FullName(ps[1].first_name, ps[1].last_name))
         # Upper(FullName(ps[2].first_name, ps[2].last_name))

EmailRequests == SelectSeq(issued, LAMBDA q : q.call = "find_person_by_email")

\* C2: on a remote of two people with distinct emails and names, a person call
\* that supplies an email one of them holds (and is not answered from the cache)
\* returns the holder of the first such email of its list, creates nothing, and
\* has searched exactly the emails up to that one, in the order supplied.
C2_FindByEmailReturnsExisting ==
    (/\ Started /\ op = "person" /\ pc = "done"
     /\ TwoPeopleDistinctEmails(before.people)
     /\ outcome.error \notin {"ValueError", "HTTPError"}
     /\ \A i \in DOMAIN issued :
            issued[i].call = "find_person_by_id" => issued[i].result = << >>
     /\ \E i \in DOMAIN args.emails, p \in Range(before.people) :
            HoldsEmail(p, args.emails[i])) =>
        LET k == Min({i \in DOMAIN args.emails :
                        \E p \in Range(before.people) : HoldsEmail(p, args.emails[i])})
            holder == CHOOSE p \in Range(before.people) : HoldsEmail(p, args.emails[k])
        IN  /\ outcome = Ret(<<holder>>)
            /\ people = before.people
            /\ \A i \in DOMAIN issued : issued[i].call \notin CreateCalls
            /\ Len(EmailRequests) = k
            /\ \A i \in 1..k : EmailRequests[i].term = args.emails[i]

\* such a call whose first email nobody holds and whose second email is found
C2_Witness ==
    /\ Started /\ op = "person" /\ pc = "done"
    /\ TwoPeopleDistinctEmails(before.people)
    /\ Len(issued) = 2
    /\ issued[1].call = "find_person_by_email" /\ issued[1].result = << >>
    /\ issued[2].call = "find_person_by_email" /\ issued[2].result # << >>
    /\ outcome = Ret(issued[2].result)

ExactName(p, first_name, last_name) ==
    Lower(p.first_name) = Lower(first_name) /\ Lower(p.last_name) = Lower(last_name)

\* C3: right after find_person_by_name got its response: with exactly one
\* person of the response equal to the queried names (ignoring case) that person
\* is returned, with more than one MultipleResults is raised, with none None is
\* returned.
C3_NameSearchReturnsExactMatch ==
    (/\ Started /\ op = "person" /\ issued # << >>
     /\ Last(issued).call = "find_person_by_name" /\ Last(issued).status = 200) =>
        LET exact == Positions(response,
                         LAMBDA p : ExactName(p, args.first_name, args.last_name))
        IN  /\ Cardinality(exact) = 1 =>
                Last(issued).result = <<response[Min(exact)]>>
            /\ Cardinality(exact) > 1 => outcome = Raise("MultipleResults")
            /\ Cardinality(exact) = 0 =>
                Last(issued).result = << >> /\ outcome.kind # "raised"

HasDomain(c, domain) == \E d \in c.domains : Upper(d) = Upper(domain)

\* C4: right after find_company_by_domain got its response: with two or more
\* companies of the response having the queried domain (ignoring case),
\* MultipleResults is raised unless take_best_match, which returns the first of
\* them in the order of the response; exactly one is returned; with none, None.
C4_DomainSearchAmbiguity ==
    (/\ Started /\ op = "company" /\ issued # << >>
     /\ Last(issued).call = "find_company_by_domain" /\ Last(issued).status = 200) =>
        LET exact == Positions(response, LAMBDA c : HasDomain(c, args.domain))
        IN  /\ (Cardinality(exact) >= 2 /\ ~args.take_best_match) =>
                outcome = Raise("MultipleResults") /\ pc = "done"
            /\ (Cardinality(exact) >= 2 /\ args.take_best_match) =>
                Last(issued).result = <<response[Min(exact)]>>
            /\ Cardinality(exact) = 1 =>
                Last(issued).result = <<response[Min(exact)]>>
            /\ Cardinality(exact) = 0 =>
                Last(issued).result = << >> /\ outcome.kind # "raised"

\* two companies with the queried domain and take_best_match: the first is returned
C4_Witness ==
    /\ Started /\ op = "company" /\ pc = "done" /\ issued # << >>
    /\ Last(issued).call = "find_company_by_domain" /\ Last(issued).status = 200
    /\ args.take_best_match
    /\ Cardinality(Positions(response, LAMBDA c : HasDomain(c, args.domain))) = 2
    /\ outcome = Ret(<<response[1]>>)

SameName(c, name) == Lower(c.name) = Lower(name)

\* C5: in a company call the name search is made only right after a domain
\* search that returned no company, or, when the domain is null, without any
\* domain search; and the name search settles several exact matches as the
\* domain search does.
C5_DomainFirstThenName ==
    (Started /\ op = "company") =>
        /\ \A i \in DOMAIN issued :
            issued[i].call = "find_company_by_domain" =>
                /\ args.domain # None
                /\ issued[i].term = args.domain
                /\ \A j \in 1..(i - 1) : issued[j].call \notin SearchCalls
        /\ \A i \in DOMAIN issued :
            issued[i].call = "find_company_by_name" =>
                IF args.domain = None
                THEN \A j \in DOMAIN issued : issued[j].call # "find_company_by_domain"
                ELSE /\ i > 1
                     /\ issued[i - 1].call = "find_company_by_domain"
                     /\ issued[i - 1].status = 200
                     /\ issued[i - 1].result = << >>
        /\ (/\ issued # << >>
            /\ Last(issued).call = "find_company_by_name"
            /\ Last(issued).status = 200) =>
                LET exact == Positions(response, LAMBDA c : SameName(c, args.name))
                IN  /\ (Cardinality(exact) >= 2 /\ ~args.take_best_match) =>
                        outcome = Raise("MultipleResults") /\ pc = "done"
                    /\ (Cardinality(exact) >= 2 /\ args.take_best_match) =>
                        Last(issued).result = <<response[Min(exact)]>>
                    /\ Cardinality(exact) = 1 =>
                        Last(issued).result = <<response[Min(exact)]>>
                    /\ Cardinality(exact) = 0 =>
                        Last(issued).result = << >> /\ outcome.kind # "raised"

\* a domain search that found nothing, then a name search with two exact matches
\* and take_best_match
C5_Witness ==
    /\ Started /\ op = "company" /\ pc = "done"
    /\ Len(issued) = 2
    /\ issued[1].call = "find_company_by_domain" /\ issued[1].result = << >>
    /\ issued[2].call = "find_company_by_name" /\ issued[2].status = 200
    /\ args.take_best_match
    /\ Cardinality(Positions(response, LAMBDA c : SameName(c, args.name))) = 2
    /\ outcome = Ret(<<response[1]>>)

ExactOpportunity(o, name, list_id) == Lower(o.name) = Lower(name) /\ o.list_id = list_id

\* C6: a finished opportunity call never consulted the cache; an opportunity it
\* returns that existed before has the requested name (ignoring case) and list
\* id; and when its search response holds no such opportunity it has issued a
\* create.
C6_OpportunityExactNameInList ==
    (Started /\ op = "opportunity" /\ pc = "done") =>
        /\ stale = << >>
        /\ \A i \in DOMAIN issued : issued[i].call \notin FetchByIdCalls
        /\ \A o \in Range(before.opportunities) :
            outcome = Ret(<<o>>) => ExactOpportunity(o, args.name, args.list_id)
        /\ (/\ issued[1].status = 200
            /\ \A i \in DOMAIN response :
                ~ExactOpportunity(response[i], args.name, args.list_id)) =>
                /\ Len(issued) = 2
                /\ issued[2].call = "create_opportunity"

\* where the exact-match search of the call in progress starts
SearchStart ==
    IF op = "person"
    THEN (IF args.emails = << >> THEN "find_person_by_name" ELSE "find_person_by_email")
    ELSE (IF args.domain = None THEN "find_company_by_name" ELSE "find_company_by_domain")

PcOf(call) ==
    CASE call = "find_person_by_email" -> "emails"
      [] call = "find_company_by_domain" -> "domain"
      [] OTHER -> "name"

\* no request of the call returned an entity
NothingFound == \A i \in DOMAIN issued : issued[i].call \in LookupCalls => issued[i].result = << >>

\* C7: when the fetch of the one cached id reports not found, the person or
\* company call does not end with that error: its next request is the first
\* exact-match search, and if no search finds anything (and none fails) it ends
\* with a create.
C7_StaleCacheFallsThrough ==
    (/\ Started /\ op \in {"person", "company"} /\ issued # << >>
     /\ issued[1].call \in FetchByIdCalls /\ issued[1].status = 404) =>
        /\ outcome.error # "TryAgainError"
        /\ Len(issued) = 1 => pc = PcOf(SearchStart)
        /\ Len(issued) >= 2 => issued[2].call = SearchStart
        /\ (pc = "done" /\ outcome.kind = "returned" /\ NothingFound) =>
                /\ Last(issued).call \in {"create_person", "create_company"}
                /\ Last(issued).status = 200
                /\ outcome = Ret(Last(issued).result)

\* a call whose cached id was not found, whose searches found nothing and
\* which created the entity
C7_Witness ==
    /\ Started /\ op = "company" /\ pc = "done"
    /\ Len(issued) = 4
    /\ issued[1].call = "find_company_by_id" /\ issued[1].status = 404
    /\ issued[2].call = "find_company_by_domain"
    /\ issued[3].call = "find_company_by_name"
    /\ issued[4].call = "create_company" /\ issued[4].status = 200

\* the mirror store has answered the call in progress
MirrorAnswered ==
    /\ Started /\ op \in {"person", "company"}
    /\ args.cached_field_name # None /\ args.cached_filed_value # None
    /\ pc # "mirror"

\* C8: a fetch by id is issued only for the single id of a one-id answer of
\* the mirror store, as the first request of the call; after an answer of zero
\* or several ids no fetch by id is issued and the call goes to its first
\* exact-match search.
C8_FetchOnlyForOneCachedId ==
    (Started /\ op \in {"person", "company"}) =>
        /\ pc = "fetch" => Len(stale) = 1
        /\ \A i \in DOMAIN issued :
            issued[i].call \in FetchByIdCalls =>
                /\ i = 1
                /\ Len(stale) = 1
                /\ issued[i].term = <<stale[1]>>
        /\ (MirrorAnswered /\ Len(stale) # 1) =>
                /\ \A i \in DOMAIN issued : issued[i].call \notin FetchByIdCalls
                /\ issued = << >> => pc = PcOf(SearchStart)
                /\ issued # << >> => issued[1].call = SearchStart

\* a finished call that the mirror store answered with several ids
C8_Witness ==
    /\ MirrorAnswered /\ pc = "done"
    /\ Len(stale) = 2
    /\ Len(issued) >= 2
    /\ issued[1].call = SearchStart

\* C9: a create_person or create_company that the remote answers with 422
\* ends the call with AlreadyExists, and one answered with another error status
\* ends it with the HTTP error; no request follows either.
C9_CreateConflictIsAlreadyExists ==
    \A i \in DOMAIN issued :
        issued[i].call \in {"create_person", "create_company"} =>
            /\ issued[i].status = 422 =>
                i = Len(issued) /\ pc = "done" /\ outcome = Raise("AlreadyExists")
            /\ issued[i].status \notin {200, 422} =>
                i = Len(issued) /\ pc = "done" /\ outcome = Raise("HTTPError")

\* the call ended with an ambiguity error
AmbiguityError ==
    /\ pc = "done" /\ outcome.kind = "raised"
    /\ \/ outcome.error = "MultipleResults"
       \/ op = "list_entry" /\ outcome.error = "ValueError"

\* C10: a find-or-create call that ends with an ambiguity error has issued no
\* create, and the remote is as it was when the call started.
C10_AmbiguityLeavesRemoteUntouched ==
    AmbiguityError =>
        /\ Snapshot = before
        /\ \A i \in DOMAIN issued : issued[i].call \notin CreateCalls

\* a list entry call that ended with the several-entries ValueError after
\* matching qualifiers against the field values of two entries
C10_Witness ==
    /\ AmbiguityError /\ op = "list_entry"
    /\ Len(kept) = 2
    /\ Len(issued) = 3

\* the Writer's caches before any field was resolved
NoCaches ==
    [v1_fields |-> << >>, fields |-> << >>, list_fields |-> EmptyDict, fetched |-> << >>]

\* the legacy field id a field name resolves to on a list: << >> when the name
\* is unknown or the field has no legacy counterpart
LegacyIdOf(name, list_id) ==
    LET got == GetField(NoCaches, name, list_id)
    IN  IF got.kind = "raised" \/ got.value[1].v1_field = << >> THEN << >>
        ELSE <<got.value[1].v1_field[1].id>>

\* the values the remote held for a field of a list entry when the call started
ValuesHeld(legacy_id, list_entry_id) ==
    IF legacy_id = << >> THEN {}
    ELSE {v.value : v \in {w \in Range(before.fieldValues) :
                              w.list_entry_id = list_entry_id /\ w.field_id = legacy_id[1]}}

\* the entry's values for the qualifier's field are exactly the desired ones
Satisfies(entry, qualifier, list_id) ==
    ValuesHeld(LegacyIdOf(qualifier.name, list_id), entry.id) = Range(qualifier.values)

\* the entries of the call's list and entity that satisfy every qualifier
Survivors ==
    SelectSeq(before.listEntries, LAMBDA e :
        /\ e.list_id = args.list_id /\ e.entity_id = args.entity_id
        /\ \A k \in DOMAIN args.qualifiers : Satisfies(e, args.qualifiers[k], args.list_id))

\* find_or_create_list_entry is past its filtering: no fetch failed and no
\* qualifier raised
ListEntryDecided ==
    /\ op = "list_entry"
    /\ \/ pc = "create"
       \/ /\ pc = "done"
          /\ \/ outcome.kind = "returned"
             \/ outcome = Raise("ValueError")
             \/ Last(issued).call = "create_list_entry"

CallsOf(call) == {i \in DOMAIN issued : issued[i].call = call}

\* C11: once find_or_create_list_entry has filtered the list's entries by entity
\* id and qualifiers, several survivors end it with ValueError, one survivor is
\* returned, both without any create; with no survivor the call issues one
\* create_list_entry, as its last request, and creates no field value.
C11_ListEntryDecision ==
    ListEntryDecided =>
        /\ Len(Survivors) > 1 =>
            pc = "done" /\ outcome = Raise("ValueError") /\ CallsOf("create_list_entry") = {}
        /\ Len(Survivors) = 1 =>
            /\ pc = "done" /\ outcome = Ret(<<Survivors[1]>>)
            /\ CallsOf("create_list_entry") = {}
        /\ Len(Survivors) = 0 =>
            /\ CallsOf("create_field_value") = {}
            /\ fieldValues = before.fieldValues
            /\ IF pc = "create" THEN CallsOf("create_list_entry") = {}
               ELSE CallsOf("create_list_entry") = {Len(issued)}

\* entries of the entity existed, the qualifiers eliminated them all, and the
\* entry was created
C11_Witness ==
    /\ ListEntryDecided /\ pc = "done"
    /\ cands # << >> /\ args.qualifiers # << >> /\ Survivors = << >>
    /\ Last(issued).call = "create_list_entry" /\ Last(issued).status = 200
    /\ outcome.kind = "returned" /\ Len(listEntries) = Len(before.listEntries) + 1

\* the call has one qualifier, on the list field s, with one desired value
OneQualifierOnS ==
    /\ op = "list_entry" /\ pc # "idle"
    /\ Len(args.qualifiers) = 1
    /\ Upper(args.qualifiers[1].name) = <<"S">>
    /\ Len(args.qualifiers[1].values) = 1

\* the entries that held the value v of field 10 when the call started
Holders(v) ==
    SelectSeq(before.listEntries, LAMBDA e :
        \E w \in Range(before.fieldValues) :
            w.list_entry_id = e.id /\ w.field_id = 10 /\ w.value = v)

\* a fetch the remote answered with an error ended the call
FetchFailed ==
    /\ outcome = Raise("HTTPError")
    /\ Last(issued).call \in {"fetch_all_list_entries", "fetch_field_values"}
    /\ Last(issued).status # 200

\* C12: with three entries of one entity on one list whose values for a field
\* are A, B and C, find_or_create_list_entry with the qualifier targeting one
\* of the values returns the one entry that holds it, and creates no entry.
C12_QualifierSelectsOneOfThree ==
    OneQualifierOnS =>
        /\ pc # "create"
        /\ CallsOf("create_list_entry") = {}
        /\ listEntries = before.listEntries
        /\ Len(Holders(args.qualifiers[1].values[1])) = 1
        /\ pc = "done" =>
            \/ outcome = Ret(<<Holders(args.qualifiers[1].values[1])[1]>>)
            \/ FetchFailed

\* the qualifier targeted B, the values of all three entries were fetched, and
\* the entry holding B came back
C12_Witness ==
    /\ OneQualifierOnS /\ pc = "done"
    /\ args.qualifiers[1].values = <<"B">>
    /\ Cardinality(CallsOf("fetch_field_values")) = 3
    /\ outcome = Ret(<<Holders("B")[1]>>)
    /\ \E w \in Range(before.fieldValues) :
           w.field_id = 11 /\ w.list_entry_id = Holders("B")[1].id /\ w.value = "A"

\* every qualifier of the call names a field that has a legacy counterpart
QualifiersResolve ==
    \A k \in DOMAIN args.qualifiers :
        LegacyIdOf(args.qualifiers[k].name, args.list_id) # << >>

\* C13: with any number of qualifiers, the entries of the entity that survive
\* are exactly those whose values for every qualifier's field equal the desired
\* set, each qualifier being evaluated on the entry's full fetched values: a
\* call whose fetches succeed reaches its decision, on exactly these entries.
C13_EveryQualifierOnFullValues ==
    (/\ op = "list_entry" /\ pc \in {"create", "done"}
     /\ QualifiersResolve /\ ~FetchFailed) =>
        /\ ListEntryDecided
        /\ (cands # << >> /\ args.qualifiers # << >>) => kept = Survivors

\* an update_fields call is under way or over
Updating == op = "update_fields" /\ pc # "idle"

\* the values the call's fetch_field_values answers: those the remote held for
\* the call's list entry (or entity) when the call started
CurrentAtStart ==
    {w \in Range(before.fieldValues) : w.list_entry_id = args.list_entry_id}

\* the requests of the call that write field values
WriteCalls == CallsOf("delete_field_value") \cup CallsOf("create_field_value")

\* C14: in an update with overwrite=false, a field that had at least one
\* current value when the call fetched them gets no delete_field_value and no
\* create_field_value, whatever value is desired; no value is deleted at all.
C14_NoOverwriteKeepsExisting ==
    (Updating /\ ~args.overwrite) =>
        /\ \A i \in WriteCalls :
               \A w \in CurrentAtStart : w.field_id # issued[i].result[1].field_id
        /\ CallsOf("delete_field_value") = {}
        /\ \A w \in Range(before.fieldValues) : w \in Range(fieldValues)

\* the call asked for A on the list field s, which held B only; it returned
\* having issued its fetch and nothing else
C14_Witness ==
    /\ Updating /\ ~args.overwrite /\ pc = "done" /\ outcome = Ret(<< >>)
    /\ args.fields = <<FieldUpdate(<<"s">>, FALSE, <<"A">>)>>
    /\ args.list_id = 1
    /\ {w.value : w \in {x \in CurrentAtStart : x.field_id = 10}} = {"B"}
    /\ Len(issued) = 1
    /\ fieldValues = before.fieldValues

\* the resolution of item k of the call's fields, from empty caches
ItemField(k) == GetField(NoCaches, args.fields[k].name, args.list_id)

\* item k names a field that resolves and has a legacy counterpart
ItemResolves(k) ==
    ItemField(k).kind = "returned" /\ ItemField(k).value[1].v1_field # << >>

ItemLegacyId(k) == ItemField(k).value[1].v1_field[1].id

\* the value of item k has the shape of the field's declared type: a list of
\* the element class for a multi type, else None or a scalar of the class
ItemValid(k) ==
    LET value == args.fields[k]
        value_type == ItemField(k).value[1].field.value_type
    IN  /\ value_type \in DOMAIN FieldTypeMap
        /\ IF value_type \in MultiTypes
           THEN /\ value.is_list
                /\ \A v \in Range(value.values) : ClassOf(v) = ElementClass(value_type)
           ELSE /\ ~value.is_list
                /\ ClassOf(value.values[1]) \in {ElementClass(value_type), "NoneType"}

\* the desired values of item k: its entries that are neither null nor empty
Desired(k) == SelectSeq(args.fields[k].values, LAMBDA v : v \notin {NoValue, ""})

\* the values item k's field had when the call fetched the current values
ItemCurrent(k) == {w \in CurrentAtStart : w.field_id = ItemLegacyId(k)}

\* the values the call asked the remote to create, in order
CreatedValues ==
    [j \in 1..Len(SelectSeq(issued, LAMBDA r : r.call = "create_field_value")) |->
        SelectSeq(issued, LAMBDA r : r.call = "create_field_value")[j].result[1].value]

\* the call is over and every remote call it made succeeded
UpdateSucceeded ==
    /\ pc = "done"
    /\ \A i \in DOMAIN issued : issued[i].status = 200

\* a one-field update with a valid value for a field that resolves
ValidSingleUpdate ==
    /\ Updating /\ CheckScope(args.entity_type, args.list_entry_id, args.list_id) = "ok"
    /\ Len(args.fields) = 1
    /\ ItemResolves(1) /\ ItemValid(1)

\* C15: an update with overwrite=true of a field that has no current values
\* adds exactly the desired values, every one of them, and removes nothing.
C15_OverwriteOfEmptyAddsDesired ==
    (ValidSingleUpdate /\ args.overwrite /\ ItemCurrent(1) = {}) =>
        /\ CallsOf("delete_field_value") = {}
        /\ UpdateSucceeded => outcome = Ret(<< >>) /\ CreatedValues = Desired(1)

\* the field values the call asked the remote to delete
Deleted == {issued[i].result[1] : i \in CallsOf("delete_field_value")}

\* the values the remote now holds for item k's field, in the call's scope
ItemNow(k) ==
    {w.value : w \in {x \in Range(fieldValues) :
                         x.list_entry_id = args.list_entry_id /\ x.field_id = ItemLegacyId(k)}}

\* C16: in an update that is not skipped for want of overwrite, the deletes
\* are exactly the current values of the field that are not desired and the
\* creates exactly the desired values that are not current; once every call
\* succeeded the field's remote values are the desired ones.
C16_DiffIsExact ==
    (ValidSingleUpdate /\ (args.overwrite \/ ItemCurrent(1) = {})) =>
        /\ \A w \in Deleted : w \in ItemCurrent(1) /\ w.value \notin Range(Desired(1))
        /\ \A i \in CallsOf("create_field_value") :
               /\ issued[i].result[1].field_id = ItemLegacyId(1)
               /\ issued[i].result[1].value \in Range(Desired(1))
               /\ issued[i].result[1].value \notin {w.value : w \in ItemCurrent(1)}
        /\ UpdateSucceeded =>
               /\ outcome = Ret(<< >>)
               /\ Deleted = {w \in ItemCurrent(1) : w.value \notin Range(Desired(1))}
               /\ Range(CreatedValues) = Range(Desired(1)) \ {w.value : w \in ItemCurrent(1)}
               /\ ItemNow(1) = Range(Desired(1))

\* C17: within the update of one field every delete_field_value is issued
\* before the first create_field_value: no removal follows an addition.
C17_RemovalsBeforeAdditions ==
    Updating =>
        \A i, j \in DOMAIN issued :
            (/\ i < j
             /\ issued[i].call = "create_field_value"
             /\ issued[j].call = "delete_field_value") => issued[i].term # issued[j].term

\* one field was updated with a removal and then an addition, both successful
C17_Witness ==
    /\ Updating /\ pc = "done" /\ outcome = Ret(<< >>)
    /\ Len(issued) = 3
    /\ issued[2].call = "delete_field_value" /\ issued[3].call = "create_field_value"
    /\ issued[2].term = issued[3].term
    /\ issued[2].result[1].value # issued[3].result[1].value

\* the list inputs of the model
ListInputs == {v \in UNION {Range(f) : f \in FieldsChoices} : v.is_list}

FieldNames == {<<"t">>, <<"s">>, <<"n">>, <<"q">>, <<"e">>, <<"p">>, <<"z">>, <<"d">>}

\* the definitions of a name that the list's namespace holds
ListDefinitions(name, list_id) ==
    IF list_id = 0 THEN {}
    ELSE {f \in Range(ListFieldsOf(0, list_id)) :
             /\ f.type \in {"global", "list"}
             /\ f.affinity_id \notin {Persons, Companies}
             /\ Upper(f.name) = Upper(name)}

\* the definitions of a name that the global namespace holds
GlobalDefinitions(name) ==
    {f \in Range(PeopleFieldsOf(0) \o CompanyFields) :
        f.type \in {"global", "list"} /\ Upper(f.name) = Upper(name)}

\* the definitions a name is due to resolve to on a list: the list's when the
\* list defines the name, else the global ones
DueDefinitions ==
    [name \in FieldNames |->
        [list_id \in {0, 1, 2} |->
            IF ListDefinitions(name, list_id) # {}
            THEN ListDefinitions(name, list_id)
            ELSE GlobalDefinitions(name)]]

\* the resolution got is the one due for the name on the list
ResolvesAsDue(got, name, list_id) ==
    IF DueDefinitions[Lower(name)][list_id] # {}
    THEN got.kind = "returned" /\ got.value[1].field \in DueDefinitions[Lower(name)][list_id]
    ELSE got.kind = "raised" /\ got.error = "FieldNotFoundError"

\* the name resolves as due, and its upper-case spelling resolves alike
SameInBothCases(lower, upper, name, list_id) ==
    /\ ResolvesAsDue(lower, name, list_id)
    /\ upper.kind = lower.kind /\ upper.error = lower.error /\ upper.value = lower.value

\* C19: at every point of an update, with the Writer's caches as they stand,
\* the resolution of each name of the call on the call's list ignores the case
\* of the name, gives the list's definition when the list defines the name,
\* else the global definition when there is one (also when no list is given),
\* else raises FieldNotFoundError; the field the update works on is the one so
\* resolved.
C19_ResolutionPrefersListScope ==
    Updating =>
        /\ \A k \in DOMAIN args.fields :
               SameInBothCases(GetField(Caches, Lower(args.fields[k].name), args.list_id),
                               GetField(Caches, Upper(args.fields[k].name), args.list_id),
                               args.fields[k].name, args.list_id)
        /\ pc \in {"remove", "add"} =>
               ResolvesAsDue(Ret(resolved), args.fields[idx].name, args.list_id)

\* an update on list 1 works on the list's field N for the name n, which the
\* global namespace defines too, and the caches hold both namespaces
C19_Witness ==
    /\ Updating /\ pc = "add" /\ args.list_id = 1
    /\ args.fields[idx].name = <<"n">>
    /\ GlobalDefinitions(<<"n">>) # {} /\ ListDefinitions(<<"n">>, 1) # {}
    /\ resolved[1].field.affinity_id = <<"f", "-", "1", "4">>
    /\ cached_fields # << >> /\ 1 \in DOMAIN cached_list_fields

\* C20: the global field definitions are fetched at most once and the field
\* definitions of each list at most once, also for a list without fields of
\* its own: no fetch of definitions is made a second time.
C20_DefinitionsFetchedOnce ==
    \A i, j \in DOMAIN fetched : fetched[i] = fetched[j] => i = j

\* C21: a name resolved a second time, in whatever case, on the same list
\* resolves to what it resolved to the first time, also when the remote's
\* field schema has changed in between.
C21_RepeatedResolutionIsIdentical ==
    (/\ Updating /\ pc = "field" /\ idx > 1 /\ resolved # << >>
     /\ Upper(args.fields[idx].name) = Upper(args.fields[idx - 1].name)) =>
        /\ GetField(Caches, args.fields[idx].name, args.list_id).kind = "returned"
        /\ GetField(Caches, args.fields[idx].name, args.list_id).value = resolved

\* the name resolves on the list to a versioned field without legacy counterpart
NoLegacyCounterpart(name, list_id) ==
    /\ GetField(NoCaches, name, list_id).kind = "returned"
    /\ GetField(NoCaches, name, list_id).value[1].v1_field = << >>

\* C22: a versioned field without legacy counterpart resolves to a pair whose
\* legacy half is null; an update of it and a qualifier match on it fail with
\* FieldNotFoundError, and no delete or create is issued.
C22_NoLegacyCounterpartFails ==
    /\ (/\ Updating /\ CheckScope(args.entity_type, args.list_entry_id, args.list_id) = "ok"
        /\ Len(args.fields) = 1
        /\ NoLegacyCounterpart(args.fields[1].name, args.list_id)) =>
           /\ pc \notin {"remove", "add"} /\ WriteCalls = {}
           /\ pc = "done" => outcome = Raise("FieldNotFoundError") \/ FetchFailed
    /\ (/\ op = "list_entry" /\ pc \in {"create", "done"}
        /\ Len(args.qualifiers) = 1
        /\ NoLegacyCounterpart(args.qualifiers[1].name, args.list_id)
        /\ cands # << >> /\ ~FetchFailed) =>
           /\ pc = "done" /\ outcome = Raise("FieldNotFoundError")
           /\ CallsOf("create_list_entry") = {}

\* the legacy field an affinity id stands for: the one whose id is the number
\* after the dash, or the id itself when it holds no dash
DueV1Field(affinity_id) ==
    V1FieldById(IF \E i \in 1..Len(affinity_id) : affinity_id[i] = "-"
                THEN ParseInt(SplitDash(affinity_id)[2])
                ELSE ParseInt(affinity_id))

\* the catalog was built, and each of its fields goes with the legacy field
\* its id stands for
TranslatesIds(built) ==
    /\ built.kind = "ok"
    /\ \A key \in DOMAIN built.dict :
           built.dict[key].v1_field = DueV1Field(built.dict[key].field.affinity_id)

\* C23: in the global and in the list-scoped catalog an id with a dash goes
\* with the legacy field whose id is the number after the dash, an id with no
\* dash with the legacy field of that very id, and neither catalog fails to
\* build because an id has no dash.
C23_IdTranslation ==
    /\ TranslatesIds(GlobalFields)
    /\ \A list_id \in {1, 2} : TranslatesIds(GetListFields(list_id))
    /\ cached_fields # << >> => TranslatesIds(OkDict(cached_fields[1]))
    /\ \A list_id \in DOMAIN cached_list_fields :
           TranslatesIds(OkDict(cached_list_fields[list_id]))
    /\ (Updating /\ pc = "done") => outcome # Raise("IndexError")

\* the number of successful responses the v1 client has received in the call
Recomputed ==
    Successes(issued) + Len(SelectSeq(fetched, LAMBDA f : f.kind = "fields"))

\* C24: the entitlement of every successful response is handed to the mirror
\* store, one append per remote call, and the last one is the one kept in
\* memory, also for a call that makes several remote calls and for one that
\* ends with an error after successful calls.
C24_EveryEntitlementForwarded ==
    /\ Serial(api_call_entitlement) = Recomputed
    /\ pc = "done" =>
           /\ Len(inserted) = Recomputed
           /\ \A k \in DOMAIN inserted : Serial(inserted[k]) = k

\* the response just received lacks one of the six headers at least
HeaderMissing == \E key \in RateLimitHeaders : key \notin DOMAIN response'[1].headers

\* the entitlement the six headers of the response just received spell
Parsed == [key \in RateLimitHeaders |-> response'[1].headers[key]]

\* C25: when a response with a successful status lacks any one of the six
\* headers the request fails with an error and the last known entitlement
\* keeps its value; when it has all six, the last known entitlement becomes
\* the one parsed from it.
C25_MissingHeaderKeepsEntitlement ==
    [][response'[1].status = 200 =>
          IF HeaderMissing
          THEN outcome' = Raise("ValueError") /\ api_call_entitlement' = api_call_entitlement
          ELSE outcome' = Ret(<< >>) /\ api_call_entitlement' = <<Parsed>>]_vars

\* a response lacking one header only was refused, and the entitlement of an
\* earlier response is still the last known one
C25_Witness ==
    /\ op = "send_request" /\ outcome = Raise("ValueError")
    /\ response[1].status = 200
    /\ Cardinality(RateLimitHeaders \ DOMAIN response[1].headers) = 1
    /\ api_call_entitlement # << >>
    /\ api_call_entitlement[1]["X-Ratelimit-Limit-Org"] # response[1].headers["Content-Type"]

\* the call ended with the error, having asked nothing of the remote
RefusedWith(errors) ==
    /\ pc = "done" /\ outcome.kind = "raised" /\ outcome.error \in errors
    /\ issued = << >> /\ fetched = << >>
    /\ Snapshot = before

\* C26: update_fields for an opportunity without list_entry_id raises
\* CannotDetermineCorrectEntityError, and update_fields given one of list_id
\* and list_entry_id without the other raises an error; neither issues a
\* remote call.
C26_ScopeErrorsBeforeAnyCall ==
    Updating =>
        /\ (args.entity_type = "opportunity" /\ args.list_entry_id = 0) =>
               RefusedWith({"CannotDetermineCorrectEntityError"})
        /\ ((args.list_id = 0) # (args.list_entry_id = 0)) =>
               RefusedWith({"ValueError", "CannotDetermineCorrectEntityError"})

\* an update of an opportunity's fields without list entry was refused
C26_Witness ==
    /\ Updating /\ args.entity_type = "opportunity" /\ args.list_entry_id = 0
    /\ args.fields # << >>
    /\ RefusedWith({"CannotDetermineCorrectEntityError"})

\* the two calls of one Writer: the one that runs and the one that waits
TwoCalls == IF parked = << >> THEN {Call} ELSE {Call, parked[1].call}

\* the people of the remote in a person call, its companies in a company call
Entities == IF op = "person" THEN people ELSE companies

\* the call ended with a create that the remote accepted
Created(c) ==
    /\ c.pc = "done" /\ c.issued # << >>
    /\ Last(c.issued).call \in CreateCalls /\ Last(c.issued).status = 200

\* two entities with the same attributes, whatever their ids
SameKey(a, b) == [a EXCEPT !.id = 0] = [b EXCEPT !.id = 0]

\* C27: of two find-or-create calls for the same logical entity, a call that
\* returns without a lookup that found an entity has issued a create and
\* returns the entity the remote made of it, whatever the other call did in
\* between; when both calls created, the remote holds two entities with the
\* same attributes, one returned by each call.
C27_BothCallsCreate ==
    parked # << >> =>
        /\ \A c \in TwoCalls :
            (/\ c.pc = "done" /\ c.outcome.kind = "returned"
             /\ \A i \in DOMAIN c.issued :
                    c.issued[i].call \in LookupCalls => c.issued[i].result = << >>) =>
                /\ Created(c)
                /\ c.outcome = Ret(Last(c.issued).result)
                /\ \E i \in DOMAIN Entities : Entities[i] = c.outcome.value[1]
        /\ (Created(Call) /\ Created(parked[1].call)) =>
                /\ outcome.value[1].id # parked[1].call.outcome.value[1].id
                /\ SameKey(outcome.value[1], parked[1].call.outcome.value[1])

\* two interleaved calls that began on the same remote, each of which found no
\* match and created: the remote holds the entity twice
C27_Witness ==
    /\ parked # << >> /\ parked[1].interleaved
    /\ before = parked[1].call.before
    /\ Created(Call) /\ Created(parked[1].call)
    /\ \E i, j \in DOMAIN Entities :
        /\ i # j /\ SameKey(Entities[i], Entities[j])
        /\ Entities[i] = outcome.value[1]
        /\ Entities[j] = parked[1].call.outcome.value[1]


\* the number of creates the call issued
Creates(c) == Cardinality({i \in DOMAIN c.issued : c.issued[i].call \in CreateCalls})

\* the remote answered every request of the call
Answered(c) == \A i \in DOMAIN c.issued : c.issued[i].status \in {200, 404}

\* the second call was made after the first had ended: the first is the one
\* that waits, the second the one that ran last
OneAfterAnother ==
    /\ parked # << >> /\ ~parked[1].interleaved
    /\ pc = "done" /\ parked[1].call.pc = "done"

\* C29: when find_or_create_person or find_or_create_company is called twice
\* with the same arguments, one call after the other, the first call returns
\* an entity, the mirror store answers both calls alike and the remote answers
\* every request of the second call, then the second call returns the entity
\* the first call returned and the two calls issue at most one create.
C29_SecondCallReturnsSame ==
    (/\ OneAfterAnother
     /\ parked[1].call.outcome.kind = "returned"
     /\ stale = parked[1].call.stale
     /\ Answered(Call)) =>
        /\ outcome = parked[1].call.outcome
        /\ Creates(Call) + Creates(parked[1].call) <= 1

\* the positions of YYYY-MM-DDTHH:MM:SS that hold a separator, and which one
Separators == (5 :> "-") @@ (8 :> "-") @@ (11 :> "T") @@ (14 :> ":") @@ (17 :> ":")

\* a reader of YYYY-MM-DDTHH:MM:SS: the parts of the text, or nothing when the
\* text is not of that format
ReadTimestamp(text) ==
    IF /\ Len(text) = 19
       /\ \A i \in 1..19 : IF i \in DOMAIN Separators THEN text[i] = Separators[i]
                            ELSE text[i] \in Digits
    THEN <<[year |-> DecimalValue(SubSeq(text, 1, 4)),
            month |-> DecimalValue(SubSeq(text, 6, 7)),
            day |-> DecimalValue(SubSeq(text, 9, 10)),
            hour |-> DecimalValue(SubSeq(text, 12, 13)),
            minute |-> DecimalValue(SubSeq(text, 15, 16)),
            second |-> DecimalValue(SubSeq(text, 18, 19))]>>
    ELSE << >>

\* the parts of a datetime that the format keeps
ToTheSecond(value) ==
    [year |-> value.year, month |-> value.month, day |-> value.day, hour |-> value.hour,
     minute |-> value.minute, second |-> value.second]

\* C28: a datetime normalised by the field update path is a text of the
\* format YYYY-MM-DDTHH:MM:SS from which a reader of that format gets the
\* year, month, day, hour, minute and second of the datetime; the microsecond
\* and the timezone are not in the text.
C28_DatetimeRoundTrip ==
    (op = "normalise" /\ pc = "done") =>
        /\ Len(outcome.value) = 1
        /\ ReadTimestamp(outcome.value[1]) = <<ToTheSecond(args.field_value)>>

\* the legacy ids of the fields the call names
NamedLegacyIds == {LegacyIdOf(args.fields[k].name, args.list_id) : k \in DOMAIN args.fields}

\* C30: update_fields fetches the current field values at most once, and once
\* before it writes or returns; a value it deletes is one it fetched and has
\* the legacy id of the field being updated; a value the remote held for a
\* field that the call does not name stays; every create carries the legacy
\* id of the field being updated, the call's entity_id and its list_entry_id.
C30_UpdateTouchesOnlyNamedFields ==
    Updating =>
        /\ Cardinality(CallsOf("fetch_field_values")) <= 1
        /\ (WriteCalls # {} \/ (pc = "done" /\ outcome.kind = "returned")) =>
                issued[1].call = "fetch_field_values"
        /\ \A i \in CallsOf("delete_field_value") :
            /\ issued[i].result[1] \in CurrentAtStart
            /\ <<issued[i].result[1].field_id>> = LegacyIdOf(issued[i].term, args.list_id)
        /\ \A w \in Range(before.fieldValues) \ Range(fieldValues) :
            <<w.field_id>> \in NamedLegacyIds
        /\ \A i \in CallsOf("create_field_value") :
            /\ <<issued[i].result[1].field_id>> = LegacyIdOf(issued[i].term, args.list_id)
            /\ issued[i].result[1].entity_id = args.entity_id
            /\ issued[i].result[1].list_entry_id = args.list_entry_id

\* the call deleted a value of the field it names and created another, and a
\* value it fetched of a field it does not name is still there
C30_Witness ==
    /\ Updating /\ pc = "done" /\ outcome.kind = "returned"
    /\ CallsOf("delete_field_value") # {} /\ CallsOf("create_field_value") # {}
    /\ \E w \in CurrentAtStart :
        /\ <<w.field_id>> \notin NamedLegacyIds
        /\ w \in Range(fieldValues)

====
